---- MODULE Spec2Model ----
(***************************************************************************)
(* Performance Dashboard Ticker: a model of the return calculator, the     *)
(* reference-date resolver, the price aggregator and the dashboard run,    *)
(* in the two variants the repository holds (Code.js with DataProviders.js *)
(* and DateUtils.js; services/*.js).                                        *)
(*                                                                         *)
(* Numbers are exact: a price is an integer, a return is the rational      *)
(* v/d.  Binary floating point rounding is not modelled.                   *)
(***************************************************************************)
EXTENDS Integers, Sequences, FiniteSets, TLC

VARIABLES
    \* ---- return calculator (SpecReturn)
    cr_current,     \* first argument of calculateReturn
    cr_past,        \* second argument of calculateReturn
    cr_result,      \* what the call returned
    cr_pc,          \* "input" | "code" | "service" | "formatted"
    \* ---- DateCalculator (SpecDate)
    dc_referenceDate,   \* this.referenceDate, a timestamp
    dc_currentDate,     \* this.currentDate, new Date() at construction
    dc_result,          \* the date the last method returned
    dc_attempts,        \* steps getLastTradingDate walked back in that call
    dc_pc,              \* "new", or the method that returned dc_result
    \* ---- price aggregator (SpecPrices)
    pr_source,          \* per slot, what the data provider does when asked
    pr_diagnosticMode,  \* script property diagnosticMode = 'true'
    pr_result,          \* what getPrices returned, or that it threw
    pr_pc,              \* "ready" | "code" | "service"
    \* ---- dashboard run over the ticker list (SpecDashboard)
    db_tickers,         \* the ticker list: per ticker, its provider's answers
    db_sheet,           \* the dashboard sheet: per ticker, the cells of its row
    db_errors,          \* errors[] of Code.js: the tickers that failed
    db_i,               \* the loop index, counted from 1
    db_pc,              \* "ready" | "codeLoop" | "codeDone" | "serviceLoop" | "serviceDone"
    \* ---- update lock (SpecLock)
    lk_variant,         \* "code" (Code.js) | "service" (services/*.js)
    lk_inProgress,      \* script property UPDATE_IN_PROGRESS is set
    lk_time,            \* UPDATE_START_TIME / LAST_UPDATE_TIME, or NoTime
    lk_scriptLock,      \* the invocation holding LockService's script lock, or 0
    lk_now,             \* the clock, in minutes
    lk_pc,              \* per invocation, where it is
    lk_lockAcquired,    \* per invocation, its local lockAcquired
    lk_read,            \* per invocation, the property values it last read
    \* ---- MarketTimeManager (SpecMarket)
    mk_region,          \* marketRegion argument
    mk_referenceDate,   \* referenceDate / checkDate argument, in half hours
    mk_now,             \* new Date() during the call, in half hours
    mk_localOffset,     \* -getTimezoneOffset() / 60 of the script's time zone
    mk_currentDay,      \* currentDay argument of getDaysToLastTradingDay
    mk_tradingDays,     \* tradingDays argument of getDaysToLastTradingDay
    mk_result,          \* what the method returned
    mk_pc,              \* "new" | "newDays" | the method that returned
    \* ---- a function of the providers, the router or the ticker loader is
    \* ---- called (SpecMatch, SpecRoute, SpecSource, SpecTickers)
    fn_args,            \* the arguments, and what the upstream answers
    fn_result,          \* what the call returned, or that it threw
    fn_pc               \* "ready" | the function that returned

crVars == <<cr_current, cr_past, cr_result, cr_pc>>
dcVars == <<dc_referenceDate, dc_currentDate, dc_result, dc_attempts, dc_pc>>
prVars == <<pr_source, pr_diagnosticMode, pr_result, pr_pc>>
dbVars == <<db_tickers, db_sheet, db_errors, db_i, db_pc>>
lkVars == <<lk_variant, lk_inProgress, lk_time, lk_scriptLock, lk_now,
            lk_pc, lk_lockAcquired, lk_read>>

mkVars == <<mk_region, mk_referenceDate, mk_now, mk_localOffset,
            mk_currentDay, mk_tradingDays, mk_result, mk_pc>>

fnVars == <<fn_args, fn_result, fn_pc>>

vars == <<crVars, dcVars, prVars, dbVars, lkVars, mkVars, fnVars>>

\* what the actions of one part leave alone
crOthers == <<dcVars, prVars, dbVars, lkVars, mkVars, fnVars>>
dcOthers == <<crVars, prVars, dbVars, lkVars, mkVars, fnVars>>
prOthers == <<crVars, dcVars, dbVars, lkVars, mkVars, fnVars>>
dbOthers == <<crVars, dcVars, prVars, lkVars, mkVars, fnVars>>
lkOthers == <<crVars, dcVars, prVars, dbVars, mkVars, fnVars>>
mkOthers == <<crVars, dcVars, prVars, dbVars, lkVars, fnVars>>
fnOthers == <<crVars, dcVars, prVars, dbVars, lkVars, mkVars>>

\* ------------------------------------------------------------------------
\* Bounds of the model
\* ------------------------------------------------------------------------

\* Prices range over -2..MaxPrice, plus TiePrices.
MaxPrice == 5

\* A timestamp counts ticks; a day has TicksPerDay of them (the code counts
\* milliseconds).  Tick 0 of a day is local midnight.
TicksPerDay == 2

\* The system clock is sampled on every NowStride-th day of NowYear.
NowStride == 37

\* Reference dates are all the days of NumRefYears years from FirstRefYear on;
\* the system clock is in the second of them.
FirstRefYear == 2024
NumRefYears == 3

\* ------------------------------------------------------------------------
\* JavaScript values.  Every value is a record [t, v, d, s]:
\*   t  the kind, v/d the number it holds (d = 1 unless a return), s the sign
\*   prefix of a formatted percentage.
\* ------------------------------------------------------------------------

JSVal(t, v, d, s) == [t |-> t, v |-> v, d |-> d, s |-> s]

Num(n)      == JSVal("number", n, 1, "")
Ratio(n, m) == JSVal("number", n, m, "")
NaNVal      == JSVal("NaN", 0, 1, "")
PosInf      == JSVal("Infinity", 1, 1, "")
NegInf      == JSVal("Infinity", -1, 1, "")
Null        == JSVal("null", 0, 1, "")
Undefined   == JSVal("undefined", 0, 1, "")
Bool(b)     == JSVal("boolean", IF b THEN 1 ELSE 0, 1, "")
\* a string holding the decimal numeral of n, such as "110"
DecStr(n)   == JSVal("decstring", n, 1, "")
EmptyStr    == JSVal("emptystring", 0, 1, "")
\* a string that is no numeral, such as "abc"
TextStr     == JSVal("textstring", 0, 1, "")
\* a formatted percentage: sign prefix s, magnitude h hundredths of a percent
Pct(s, h)   == JSVal("percent", h, 1, s)
\* "+Infinity%" and "-Infinity%"
PctInf(s)   == JSVal("percentInfinity", 0, 1, s)
\* formatReturn's "N/A"
NotAvail    == JSVal("N/A", 0, 1, "")

\* CONFIG.STATUS of Config.js: three distinct strings
NO_DATA    == JSVal("status", 1, 1, "")
ERROR      == JSVal("status", 2, 1, "")
CALC_ERROR == JSVal("status", 3, 1, "")

Abs(n) == IF n < 0 THEN -n ELSE n
Sgn(n) == IF n < 0 THEN -1 ELSE IF n > 0 THEN 1 ELSE 0

\* typeof x === 'string'
IsString(x) == x.t \in {"decstring", "emptystring", "textstring", "status",
                        "percent", "percentInfinity", "N/A"}

\* Number(x), the coercion isNaN and the arithmetic operators apply
ToNumber(x) ==
    CASE x.t = "number"      -> x
      [] x.t = "NaN"         -> NaNVal
      [] x.t = "Infinity"    -> x
      [] x.t = "null"        -> Num(0)
      [] x.t = "undefined"   -> NaNVal
      [] x.t = "boolean"     -> Num(x.v)
      [] x.t = "decstring"   -> Num(x.v)
      [] x.t = "emptystring" -> Num(0)
      [] OTHER               -> NaNVal

\* the global isNaN(x)
IsNaN(x) == ToNumber(x).t = "NaN"

\* parseFloat(x) of a string: no numeral at the start of "" or of a word
ParseFloat(x) ==
    IF x.t = "decstring" THEN Num(x.v) ELSE NaNVal

\* x === y: same type and same value, NaN equal to nothing
StrictEq(x, y) ==
    /\ x.t # "NaN"
    /\ y.t # "NaN"
    /\ x.t = y.t
    /\ IF x.t = "number" THEN x.v * y.d = y.v * x.d ELSE x = y

\* x > 0 and x < 0 of a number value
IsPositive(x) == \/ x.t = "Infinity" /\ x.v > 0
                 \/ x.t = "number" /\ Sgn(x.v) * Sgn(x.d) > 0
IsNegative(x) == \/ x.t = "Infinity" /\ x.v < 0
                 \/ x.t = "number" /\ Sgn(x.v) * Sgn(x.d) < 0

\* (current / past - 1) * 100 of two values ToNumber made numbers or NaN
\* (Code.js:721); a division by zero gives an infinity, 0/0 gives NaN
ReturnOf(current, past) ==
    CASE current.t = "NaN" \/ past.t = "NaN" -> NaNVal
      [] past.v = 0 ->
            IF current.v = 0 THEN NaNVal
            ELSE IF Sgn(current.v) * Sgn(current.d) > 0 THEN PosInf ELSE NegInf
      [] OTHER -> Ratio(100 * (current.v * past.d - past.v * current.d),
                        past.v * current.d)

\* (mutant of ToFixed2: the digits are cut, not rounded)
ToFixed2_Truncated(x) ==
    (100 * Abs(x.v)) \div Abs(x.d)

\* x.toFixed(2), in hundredths: the nearest integer n to 100x, the larger
\* magnitude of two equally near ones
ToFixed2(x) ==
    (2 * 100 * Abs(x.v) + Abs(x.d)) \div (2 * Abs(x.d))

\* `${sign}${returnValue.toFixed(2)}%` with sign = returnValue > 0 ? '+' : ''
FormatPercent(x) ==
    IF x.t = "Infinity"
    THEN PctInf(IF x.v > 0 THEN "+" ELSE "-")
    ELSE Pct(IF IsPositive(x) THEN "+" ELSE IF IsNegative(x) THEN "-" ELSE "",
             ToFixed2(x))

\* ------------------------------------------------------------------------
\* ReturnCalculator
\* ------------------------------------------------------------------------

\* Code.js: the string-to-number step of lines 688-696
CoerceNumericString(x) ==
    IF IsString(x) /\ ~IsNaN(x) THEN ParseFloat(x) ELSE x

\* (mutant of IsNoData: only the current price is looked at)
IsNoData_CurrentOnly(current, past) ==
    StrictEq(current, NO_DATA)

\* Code.js:682: current === NO_DATA || past === NO_DATA
IsNoData(current, past) ==
    StrictEq(current, NO_DATA) \/ StrictEq(past, NO_DATA)

\* (mutant of IsZeroPast: the division-by-zero guard is missing)
IsZeroPast_Unchecked(p) ==
    FALSE

\* Code.js:709: past === 0
IsZeroPast(p) ==
    StrictEq(p, Num(0))

\* (mutant of ZeroReturn: a zero return is given the sign of a gain)
ZeroReturn_Signed ==
    Pct("+", 0)

\* Code.js:717: the literal "0.00%"
ZeroReturn ==
    Pct("", 0)

\* Code.js calculateReturn(current, past)
calculateReturn(current, past) ==
    IF IsNoData(current, past) THEN NO_DATA
    ELSE LET c == CoerceNumericString(current)
             p == CoerceNumericString(past)
         IN  IF IsNaN(c) THEN CALC_ERROR
             ELSE IF IsNaN(p) THEN CALC_ERROR
             ELSE IF IsZeroPast(p) THEN CALC_ERROR
             ELSE IF StrictEq(c, p) THEN ZeroReturn
             ELSE LET returnValue == ReturnOf(ToNumber(c), ToNumber(p))
                  IN  IF returnValue.t = "NaN" THEN CALC_ERROR
                      ELSE FormatPercent(returnValue)

\* services/PriceService.js: Math.abs(current - previous) < 0.000001
WithinTolerance(c, p) ==
    Abs(c.v * p.d - p.v * c.d) * 1000000 < Abs(c.d * p.d)

\* services/PriceService.js calculateReturn(current, previous): a number, or
\* null for every input it rejects
calculateReturnService(current, previous) ==
    IF \/ current.t \in {"null", "undefined"}
       \/ previous.t \in {"null", "undefined"}
       \/ IsNaN(current) \/ IsNaN(previous)
    THEN Null
    ELSE LET c == IF IsString(current) THEN ParseFloat(current) ELSE current
             p == IF IsString(previous) THEN ParseFloat(previous) ELSE previous
         IN  IF IsNaN(c) \/ IsNaN(p) THEN Null
             ELSE IF StrictEq(p, Num(0)) THEN Null
             ELSE IF WithinTolerance(ToNumber(c), ToNumber(p)) THEN Num(0)
             ELSE LET returnValue == ReturnOf(ToNumber(c), ToNumber(p))
                  IN  IF returnValue.t \in {"NaN", "Infinity"} THEN Null
                      ELSE returnValue

\* services/PriceService.js formatReturn(returnValue)
formatReturn(returnValue) ==
    IF returnValue.t \in {"null", "undefined"} \/ IsNaN(returnValue)
    THEN NotAvail
    ELSE FormatPercent(ToNumber(returnValue))

\* ------------------------------------------------------------------------
\* SpecReturn: the return calculator applied to every pair of inputs
\* ------------------------------------------------------------------------

\* prices whose return falls exactly between two hundredths (33/32 = +3.125 %)
TiePrices == {32, 33}

Prices == (-2 .. MaxPrice) \cup TiePrices

NumericInputs == {Num(n) : n \in Prices}

InputVals ==
    NumericInputs
    \cup {DecStr(n) : n \in 0 .. MaxPrice}
    \cup {NaNVal, Null, Undefined, Bool(TRUE), Bool(FALSE),
          EmptyStr, TextStr, NO_DATA, ERROR, CALC_ERROR}

\* the return calculator before any call, and while other parts run
ReturnIdle ==
    /\ cr_current = Undefined
    /\ cr_past = Undefined
    /\ cr_result = Undefined
    /\ cr_pc = "idle"

\* the DateCalculator before construction, and while other parts run
DateIdle ==
    /\ dc_referenceDate = 0
    /\ dc_currentDate = 0
    /\ dc_result = 0
    /\ dc_attempts = 0
    /\ dc_pc = "idle"

\* the price aggregator before any call, and while other parts run
PricesIdle ==
    /\ pr_source = <<>>
    /\ pr_diagnosticMode = FALSE
    /\ pr_result = <<>>
    /\ pr_pc = "idle"

\* no dashboard run over a ticker list
DashboardIdle ==
    /\ db_tickers = <<>>
    /\ db_sheet = <<>>
    /\ db_errors = <<>>
    /\ db_i = 0
    /\ db_pc = "idle"

\* no invocation of updatePerformanceDashboard
LockIdle ==
    /\ lk_variant = "idle"
    /\ lk_inProgress = FALSE
    /\ lk_time = 0
    /\ lk_scriptLock = 0
    /\ lk_now = 0
    /\ lk_pc = <<>>
    /\ lk_lockAcquired = <<>>
    /\ lk_read = <<>>

\* no MarketTimeManager call
MarketIdle ==
    /\ mk_region = ""
    /\ mk_referenceDate = 0
    /\ mk_now = 0
    /\ mk_localOffset = 0
    /\ mk_currentDay = 0
    /\ mk_tradingDays = {}
    /\ mk_result = <<>>
    /\ mk_pc = "idle"

\* no call of a provider, router or loader function
FnIdle ==
    /\ fn_args = <<>>
    /\ fn_result = <<>>
    /\ fn_pc = "idle"

ReturnInit ==
    /\ cr_current \in InputVals
    /\ cr_past \in InputVals
    /\ cr_result = Undefined
    /\ cr_pc = "input"
    /\ DateIdle /\ PricesIdle /\ DashboardIdle /\ LockIdle /\ MarketIdle /\ FnIdle

\* calculateReturn of Code.js is called
CalculateReturnCode ==
    /\ cr_pc = "input"
    /\ cr_result' = calculateReturn(cr_current, cr_past)
    /\ cr_pc' = "code"
    /\ UNCHANGED <<cr_current, cr_past>>
    /\ UNCHANGED crOthers

\* calculateReturn of services/PriceService.js is called
CalculateReturnService ==
    /\ cr_pc = "input"
    /\ cr_result' = calculateReturnService(cr_current, cr_past)
    /\ cr_pc' = "service"
    /\ UNCHANGED <<cr_current, cr_past>>
    /\ UNCHANGED crOthers

\* formatReturn is applied to what the service's calculateReturn returned
FormatReturn ==
    /\ cr_pc = "service"
    /\ cr_result' = formatReturn(cr_result)
    /\ cr_pc' = "formatted"
    /\ UNCHANGED <<cr_current, cr_past>>
    /\ UNCHANGED crOthers

ReturnNext ==
    \/ CalculateReturnCode
    \/ CalculateReturnService
    \/ FormatReturn

SpecReturn == ReturnInit /\ [][ReturnNext]_vars

\* ---- claims about the return calculator ---------------------------------

\* the role the arguments play in the claims
IsFiniteNumber(x) == x \in NumericInputs
\* the value of a formatted percentage, in hundredths of a percent
SignedHundredths(r) == IF r.s = "-" THEN -r.v ELSE r.v
\* h is a nearest hundredth to (current/past - 1) * 100
IsNearestHundredth(h, c, p) ==
    Abs(2 * 10000 * (c - p) * Sgn(p) - 2 * h * Abs(p)) <= Abs(p)

C5_NoDataWins ==
    /\ ( cr_pc = "code" /\ (cr_current = NO_DATA \/ cr_past = NO_DATA) )
       => cr_result = NO_DATA
    /\ ( cr_pc = "service" /\ (cr_current = Null \/ cr_past = Null) )
       => cr_result = Null

\* C5 witness: a number against NO_DATA
C5_Witness ==
    /\ cr_pc = "code"
    /\ cr_current = Num(3)
    /\ cr_past = NO_DATA
    /\ cr_result = NO_DATA

\* C6 as stated: compute(x, 0) is CALC_ERROR for every first argument x.
C6_Original ==
    ( cr_pc = "code" /\ cr_past = Num(0) ) => cr_result = CALC_ERROR

\* C6 amended: compute(x, 0) is CALC_ERROR for every x but the NO_DATA
\* sentinel, for which the NO_DATA rule comes first (services/PriceService.js
\* returns its one sentinel, null, for every x).
C6_ZeroPast ==
    /\ ( cr_pc = "code" /\ cr_past = Num(0) )
       => cr_result = IF cr_current = NO_DATA THEN NO_DATA ELSE CALC_ERROR
    /\ ( cr_pc = "service" /\ cr_past = Num(0) ) => cr_result = Null

\* C6 witness: a number against 0
C6_Witness ==
    /\ cr_pc = "code"
    /\ cr_current = Num(3)
    /\ cr_past = Num(0)
    /\ cr_result = CALC_ERROR

\* C7: compute(x, x) is exactly "0.00%", unsigned, for every finite x # 0.
C7_SamePrice ==
    ( /\ IsFiniteNumber(cr_current)
      /\ cr_current.v # 0
      /\ cr_past = cr_current )
    => /\ cr_pc \in {"code", "formatted"} => cr_result = Pct("", 0)
       /\ cr_pc = "service" => cr_result = Num(0)

\* C7 witness: 3 against 3
C7_Witness ==
    /\ cr_pc = "code"
    /\ cr_current = Num(3)
    /\ cr_past = Num(3)
    /\ cr_result = Pct("", 0)

\* a value that is no number and no numeric string
IsNonNumeric(x) == x.t \notin {"number", "decstring"}

\* C8: with neither argument NO_DATA, an argument that is not a number after
\* numeric strings are coerced (null, undefined, "", a word, a boolean)
\* makes the result CALC_ERROR.
C8_NonNumeric ==
    ( /\ cr_pc = "code"
      /\ cr_current # NO_DATA
      /\ cr_past # NO_DATA
      /\ (IsNonNumeric(cr_current) \/ IsNonNumeric(cr_past)) )
    => cr_result = CALC_ERROR

\* ------------------------------------------------------------------------
\* Calendar: what the JavaScript Date does in the script's time zone (no
\* daylight saving).  Day 0 is 1 January of BaseYear.
\* ------------------------------------------------------------------------

BaseYear == FirstRefYear - 1
NowYear == FirstRefYear + 1
RefYears == FirstRefYear .. (FirstRefYear + NumRefYears - 1)
Years == (BaseYear - 1) .. (FirstRefYear + NumRefYears)

IsLeap(y) == y % 4 = 0 /\ (y % 100 # 0 \/ y % 400 = 0)

\* leap years before year y
LeapsBefore(y) == (y - 1) \div 4 - (y - 1) \div 100 + (y - 1) \div 400

\* day number of 1 January of year y
DaysBeforeYear(y) == 365 * (y - BaseYear) + LeapsBefore(y) - LeapsBefore(BaseYear)

\* month m is 0 (January) .. 11 (December), as getMonth() counts
DaysInMonth(y, m) ==
    CASE m = 1 -> IF IsLeap(y) THEN 29 ELSE 28
      [] m \in {3, 5, 8, 10} -> 30
      [] OTHER -> 31

RECURSIVE DaysBeforeMonth(_, _)
DaysBeforeMonth(y, m) ==
    IF m = 0 THEN 0 ELSE DaysBeforeMonth(y, m - 1) + DaysInMonth(y, m - 1)

\* MakeDay of ECMAScript: month may lie outside 0..11 and the day of the month
\* may exceed the month's length; both carry over
MakeDay(y, m, d) ==
    LET yy == y + (m \div 12)
        mm == m % 12
    IN  DaysBeforeYear(yy) + DaysBeforeMonth(yy, mm) + d - 1

DayOf(ts) == ts \div TicksPerDay
TimeOfDay(ts) == ts % TicksPerDay

\* date.getFullYear(), getMonth(), getDate(), getDay()
GetFullYear(ts) ==
    CHOOSE y \in Years :
        DaysBeforeYear(y) <= DayOf(ts) /\ DayOf(ts) < DaysBeforeYear(y + 1)
GetMonth(ts) ==
    LET y == GetFullYear(ts)
        n == DayOf(ts) - DaysBeforeYear(y)
    IN  CHOOSE m \in 0 .. 11 :
            DaysBeforeMonth(y, m) <= n /\ n < DaysBeforeMonth(y, m) + DaysInMonth(y, m)
GetDate(ts) ==
    LET y == GetFullYear(ts)
    IN  DayOf(ts) - DaysBeforeYear(y) - DaysBeforeMonth(y, GetMonth(ts)) + 1
\* the day of the week of 1 January of year y, Sunday = 0 (1 January of
\* year 1 is a Monday)
WeekdayOfNewYear(y) == (365 * (y - 1) + LeapsBefore(y) + 1) % 7
GetDay(ts) == (DayOf(ts) + WeekdayOfNewYear(BaseYear)) % 7

\* date.setMonth(month): the same day of the month and time of day
SetMonth(ts, month) ==
    MakeDay(GetFullYear(ts), month, GetDate(ts)) * TicksPerDay + TimeOfDay(ts)

\* new Date(year, 0, 1): local midnight
NewDate(y, m, d) == MakeDay(y, m, d) * TicksPerDay

\* ------------------------------------------------------------------------
\* DateCalculator (DateUtils.js)
\* ------------------------------------------------------------------------

\* CONFIG.DATE_RANGES
WEEKLY == 7
MONTHLY == 30

\* isWeekend(date): Sunday = 0, Saturday = 6
isWeekend(date) == GetDay(date) = 0 \/ GetDay(date) = 6

\* the loop of getLastTradingDate: one day back while the day is a weekend
\* day and fewer than 7 attempts were made
RECURSIVE WalkBack(_, _)
WalkBack(date, attempts) ==
    IF isWeekend(date) /\ attempts < 7
    THEN WalkBack(date - TicksPerDay, attempts + 1)
    ELSE [date |-> date, attempts |-> attempts]

\* getLastTradingDate(date), with the attempts it made
getLastTradingDate(date) == WalkBack(date, 0)

\* (mutant of getPastDate: no check against the system date)
getPastDate_Unguarded(referenceDate, currentDate, daysAgo) ==
    referenceDate - daysAgo * TicksPerDay

\* getPastDate(daysAgo)
getPastDate(referenceDate, currentDate, daysAgo) ==
    LET pastDate == referenceDate - daysAgo * TicksPerDay
    IN  IF pastDate > currentDate
        THEN currentDate - daysAgo * TicksPerDay
        ELSE pastDate

\* getDateWeeksAgo(weeks)
getDateWeeksAgo(referenceDate, currentDate, weeks) ==
    getLastTradingDate(getPastDate(referenceDate, currentDate, weeks * 7))

\* getDateMonthsAgo(months)
getDateMonthsAgo(referenceDate, currentDate, months) ==
    LET date == SetMonth(referenceDate, GetMonth(referenceDate) - months)
    IN  IF date > currentDate
        THEN getLastTradingDate(SetMonth(currentDate, GetMonth(currentDate) - months))
        ELSE getLastTradingDate(date)

\* getYearStartDate(), and getYtdDate(), which has the same body
getYearStartDate(referenceDate, currentDate) ==
    LET year == GetFullYear(referenceDate)
        currentYear == GetFullYear(currentDate)
    IN  getLastTradingDate(NewDate(IF year > currentYear THEN currentYear ELSE year, 0, 1))

\* getWeekAgoDate()
getWeekAgoDate(referenceDate, currentDate) ==
    getLastTradingDate(getPastDate(referenceDate, currentDate, WEEKLY))

\* getMonthAgoDate()
getMonthAgoDate(referenceDate, currentDate) ==
    getLastTradingDate(getPastDate(referenceDate, currentDate, MONTHLY))

\* ------------------------------------------------------------------------
\* SpecDate: a DateCalculator is constructed and one of its methods called
\* ------------------------------------------------------------------------

\* every day of RefYears, at every tick of the day
ReferenceDates ==
    { n * TicksPerDay + t :
        n \in DaysBeforeYear(FirstRefYear)
                .. (DaysBeforeYear(FirstRefYear + NumRefYears) - 1),
        t \in 0 .. (TicksPerDay - 1) }

\* the sampled days of NowYear, at every tick of the day
SystemDates ==
    { n * TicksPerDay + t :
        n \in { k \in DaysBeforeYear(NowYear) .. (DaysBeforeYear(NowYear + 1) - 1) :
                   (k - DaysBeforeYear(NowYear)) % NowStride = 0 },
        t \in 0 .. (TicksPerDay - 1) }

\* constructor(referenceDate): this.currentDate = new Date()
DateInit ==
    /\ dc_referenceDate \in ReferenceDates
    /\ dc_currentDate \in SystemDates
    /\ dc_result = 0
    /\ dc_attempts = 0
    /\ dc_pc = "new"
    /\ ReturnIdle /\ PricesIdle /\ DashboardIdle /\ LockIdle /\ MarketIdle /\ FnIdle

DateReturns(method, r) ==
    /\ dc_pc = "new"
    /\ dc_result' = r.date
    /\ dc_attempts' = r.attempts
    /\ dc_pc' = method
    /\ UNCHANGED <<dc_referenceDate, dc_currentDate>>
    /\ UNCHANGED dcOthers

GetDateWeeksAgo ==
    DateReturns("getDateWeeksAgo", getDateWeeksAgo(dc_referenceDate, dc_currentDate, 1))

GetDateMonthsAgo ==
    DateReturns("getDateMonthsAgo", getDateMonthsAgo(dc_referenceDate, dc_currentDate, 1))

GetYearStartDate ==
    DateReturns("getYearStartDate", getYearStartDate(dc_referenceDate, dc_currentDate))

GetWeekAgoDate ==
    DateReturns("getWeekAgoDate", getWeekAgoDate(dc_referenceDate, dc_currentDate))

GetMonthAgoDate ==
    DateReturns("getMonthAgoDate", getMonthAgoDate(dc_referenceDate, dc_currentDate))

GetYtdDate ==
    DateReturns("getYtdDate", getYearStartDate(dc_referenceDate, dc_currentDate))

DateNext ==
    \/ GetDateWeeksAgo
    \/ GetDateMonthsAgo
    \/ GetYearStartDate
    \/ GetWeekAgoDate
    \/ GetMonthAgoDate
    \/ GetYtdDate

SpecDate == DateInit /\ [][DateNext]_vars

\* ---- claims about the DateCalculator ------------------------------------

\* C9: when the reference date less 7 days lies after the system date taken
\* at construction, the week-ago date is computed from the system date (its
\* 7-day offset, snapped back over a weekend) and is not after it.
C9_FutureGuard ==
    ( /\ dc_pc \in {"getDateWeeksAgo", "getWeekAgoDate"}
      /\ dc_referenceDate - 7 * TicksPerDay > dc_currentDate )
    => /\ dc_result <= dc_currentDate
       /\ dc_result <= dc_currentDate - 7 * TicksPerDay
       /\ dc_result >= dc_currentDate - 9 * TicksPerDay

\* C9 witness: a reference date one year ahead of the system date
C9_Witness ==
    /\ dc_pc = "getDateWeeksAgo"
    /\ dc_referenceDate = dc_currentDate + 365 * TicksPerDay
    /\ dc_result <= dc_currentDate

\* the naive offsets of the claim, as calendar days
NaiveWeekAgoDay(ref) == DayOf(ref) - 7
\* one calendar month back: the same day of the previous month, the last day
\* of that month when it is shorter
NaiveMonthAgoDay(ref) ==
    LET y == GetFullYear(ref)
        m == GetMonth(ref)
        py == IF m = 0 THEN y - 1 ELSE y
        pm == IF m = 0 THEN 11 ELSE m - 1
        d == IF GetDate(ref) > DaysInMonth(py, pm)
             THEN DaysInMonth(py, pm) ELSE GetDate(ref)
    IN  MakeDay(py, pm, d)
NaiveYearStartDay(ref) == MakeDay(GetFullYear(ref), 0, 1)

\* C10, week: the week-ago date is a trading day, not after the reference
\* date less 7 days, reached in at most 7 steps back.
C10_WeekAgo ==
    dc_pc = "getDateWeeksAgo"
    => /\ ~isWeekend(dc_result)
       /\ DayOf(dc_result) <= NaiveWeekAgoDay(dc_referenceDate)
       /\ dc_attempts <= 7

\* C10, year start: the year-start date is a trading day, not after
\* 1 January of the reference year, reached in at most 7 steps back.
C10_YearStart ==
    dc_pc = "getYearStartDate"
    => /\ ~isWeekend(dc_result)
       /\ DayOf(dc_result) <= NaiveYearStartDay(dc_referenceDate)
       /\ dc_attempts <= 7

\* C10, month: the month-ago date is a trading day, not after the reference
\* date less one calendar month, reached in at most 7 steps back.
C10_MonthAgo ==
    dc_pc = "getDateMonthsAgo"
    => /\ ~isWeekend(dc_result)
       /\ DayOf(dc_result) <= NaiveMonthAgoDay(dc_referenceDate)
       /\ dc_attempts <= 7

\* C10: for every reference date, weekAgo, monthAgo and yearStart each return
\* a trading day that is not later than the naive offset date (7 days back,
\* one calendar month back, 1 January of the reference year), the backward
\* walk taking at most 7 steps.
C10_TradingDayNotAfterNaive ==
    /\ C10_WeekAgo
    /\ C10_MonthAgo
    /\ C10_YearStart

\* ------------------------------------------------------------------------
\* Price aggregator: getPrices (Code.js; services/PriceService.js)
\* ------------------------------------------------------------------------

\* The data provider answers a lookup with a price in 0..MaxQuote, with null,
\* or by throwing.
MaxQuote == 2

\* the price slots of a ticker (Code.js names the second and third weekAgo
\* and monthAgo)
Slots == {"current", "weekly", "monthly", "ytd", "high"}
HistoricalSlots == Slots \ {"current"}

\* a lookup of the data provider that throws
Throws == JSVal("throws", 0, 1, "")

Quotes == {Throws, Null} \cup {Num(n) : n \in 0 .. MaxQuote}

\* what getPrices hands back: the prices object, or the error it rethrew
Returned(prices) == [threw |-> FALSE, prices |-> prices]
Thrown == [threw |-> TRUE, prices |-> [s \in Slots |-> Undefined]]

\* typeof x === 'number'
IsTypeNumber(x) == x.t \in {"number", "NaN", "Infinity"}

\* getPrices of Code.js: five lookups in one try block, whose catch rethrows
getPricesCode(source) ==
    IF \E s \in Slots : source[s] = Throws
    THEN Thrown
    ELSE Returned(source)

\* getPrices of services/PriceService.js: the current price must be a number;
\* each later lookup has its own try/catch, which leaves null in the slot
getPricesService(source) ==
    IF source["current"] = Throws THEN Thrown
    ELSE IF ~IsTypeNumber(source["current"]) \/ IsNaN(source["current"]) THEN Thrown
    ELSE Returned([s \in Slots |-> IF source[s] = Throws THEN Null ELSE source[s]])

\* the diagnostic-mode property after getPrices of services/PriceService.js:
\* set to true at entry, set back before the return; the catch block names
\* originalDiagnosticMode, a const of the try block, which is out of scope
\* there, and the ReferenceError is swallowed
diagnosticModeAfter(original, result) ==
    IF result.threw THEN TRUE ELSE original

PricesInit ==
    /\ pr_source \in [Slots -> Quotes]
    /\ pr_diagnosticMode \in BOOLEAN
    /\ pr_result = Thrown
    /\ pr_pc = "ready"
    /\ ReturnIdle /\ DateIdle /\ DashboardIdle /\ LockIdle /\ MarketIdle /\ FnIdle

\* getPrices of Code.js is called
GetPricesCode ==
    /\ pr_pc = "ready"
    /\ pr_result' = getPricesCode(pr_source)
    /\ pr_pc' = "code"
    /\ UNCHANGED <<pr_source, pr_diagnosticMode>>
    /\ UNCHANGED prOthers

\* getPrices of services/PriceService.js is called
GetPricesService ==
    /\ pr_pc = "ready"
    /\ pr_result' = getPricesService(pr_source)
    /\ pr_diagnosticMode' = diagnosticModeAfter(pr_diagnosticMode, getPricesService(pr_source))
    /\ pr_pc' = "service"
    /\ UNCHANGED pr_source
    /\ UNCHANGED prOthers

PricesNext ==
    \/ GetPricesCode
    \/ GetPricesService

SpecPrices == PricesInit /\ [][PricesNext]_vars

\* ---- claims about the price aggregator ----------------------------------

\* the provider throws for slot s and answers every other slot with a number
ThrowsOnlyFor(s) ==
    /\ pr_source[s] = Throws
    /\ \A o \in Slots \ {s} : pr_source[o].t = "number"

\* the slot's value for "no data": CONFIG.STATUS.NO_DATA in Code.js, null in
\* services/PriceService.js
NoDataSlot == IF pr_pc = "code" THEN NO_DATA ELSE Null

\* slot s alone holds the no-data value, the ticker is not an error
SlotIsolated(s) ==
    /\ ~pr_result.threw
    /\ pr_result.prices[s] = NoDataSlot
    /\ \A o \in Slots \ {s} : pr_result.prices[o] = pr_source[o]

\* C2 for getPrices of services/PriceService.js alone
C2_ServiceSlotIsolation ==
    \A s \in HistoricalSlots :
        (pr_pc = "service" /\ ThrowsOnlyFor(s)) => SlotIsolated(s)

\* C2: when the price source throws for exactly one historical or 52-week
\* high slot, getPrices returns the no-data value for that slot only, the
\* current price and every other slot keep the values the source returned,
\* and getPrices does not throw.
C2_SlotIsolation ==
    \A s \in HistoricalSlots :
        (pr_pc \in {"code", "service"} /\ ThrowsOnlyFor(s)) => SlotIsolated(s)

\* ------------------------------------------------------------------------
\* Dashboard run over the ticker list: processAndRenderTickersProgressively
\* (Code.js) and the loop of updatePerformanceDashboard
\* (services/DashboardService.js)
\* ------------------------------------------------------------------------

\* the length of the ticker list
NumTickers == 3

Tickers == 1 .. NumTickers

\* the cells of a ticker's row that the run writes; the services variant has
\* further columns (symbol, source, prices, timestamp) that renderToDashboard
\* fills together with the name
Columns == {"name", "weekly", "monthly", "ytd", "high", "info"}
ReturnColumns == {"weekly", "monthly", "ytd", "high"}

\* cell contents besides the values of the return calculator
Blank        == JSVal("blank", 0, 1, "")
Loading      == JSVal("loading", 0, 1, "")
ErrorMessage == JSVal("errorMessage", 0, 1, "")
Name(i)      == JSVal("name", i, 1, "")

\* the provider's answers for a ticker: all five prices; none for the current
\* price; none for the week-ago price; no current price but null
Quoted(c, w, m, y, h) ==
    [s \in Slots |-> CASE s = "current" -> c [] s = "weekly" -> w
                        [] s = "monthly" -> m [] s = "ytd" -> y [] OTHER -> h]
TickerSources ==
    { Quoted(Num(2), Num(1), Num(2), Num(1), Num(2)),
      Quoted(Throws, Num(1), Num(2), Num(1), Num(2)),
      Quoted(Num(2), Throws, Num(2), Num(1), Num(2)),
      Quoted(Null, Num(1), Num(2), Num(1), Num(2)) }

\* calculateReturns(prices) of Code.js
calculateReturns(prices) ==
    [c \in ReturnColumns |-> calculateReturn(prices["current"], prices[c])]

\* calculateReturns(prices) of services/PriceService.js
calculateReturnsService(prices) ==
    [c \in ReturnColumns |-> calculateReturnService(prices["current"], prices[c])]

\* renderToDashboard: a return is written as a fraction, null as 'N/A'
renderedReturn(r) ==
    IF r = Null THEN NotAvail
    ELSE IF r.t = "number" THEN Ratio(r.v, r.d * 100)
    ELSE r

\* Code.js: the row updateTickerRow writes for ticker i, from the try block
\* or from its catch block
tickerRowCode(i, source) ==
    LET result == getPricesCode(source)
    IN  [c \in Columns |->
            CASE c = "name" -> Name(i)
              [] c = "info" -> Blank
              [] OTHER -> IF result.threw THEN ERROR
                          ELSE calculateReturns(result.prices)[c]]

\* services: the row after processTicker and renderToDashboard, or after
\* showTickerError, which writes the info cell only
tickerRowService(i, source, before) ==
    LET result == getPricesService(source)
    IN  [c \in Columns |->
            CASE c = "info" -> IF result.threw THEN ErrorMessage ELSE Blank
              [] c = "name" -> IF result.threw THEN before[c] ELSE Name(i)
              [] OTHER -> IF result.threw THEN before[c]
                          ELSE renderedReturn(calculateReturnsService(result.prices)[c])]

DashboardInit ==
    /\ db_tickers \in [Tickers -> TickerSources]
    /\ db_sheet = [i \in Tickers |-> [c \in Columns |-> Blank]]
    /\ db_errors = <<>>
    /\ db_i = 0
    /\ db_pc = "ready"
    /\ ReturnIdle /\ DateIdle /\ PricesIdle /\ LockIdle /\ MarketIdle /\ FnIdle

\* Code.js:354-387: the placeholder rows are rendered
StartCode ==
    /\ db_pc = "ready"
    /\ db_sheet' = [i \in Tickers |->
                      [c \in Columns |-> CASE c = "name" -> Name(i)
                                           [] c = "info" -> Blank
                                           [] OTHER -> Loading]]
    /\ db_errors' = <<>>
    /\ db_i' = 1
    /\ db_pc' = "codeLoop"
    /\ UNCHANGED db_tickers
    /\ UNCHANGED dbOthers

\* Code.js:389-467: one pass of the loop
ProcessTickerCode ==
    /\ db_pc = "codeLoop"
    /\ db_i <= NumTickers
    /\ db_sheet' = [db_sheet EXCEPT ![db_i] = tickerRowCode(db_i, db_tickers[db_i])]
    /\ db_errors' = IF getPricesCode(db_tickers[db_i]).threw
                     THEN Append(db_errors, db_i) ELSE db_errors
    /\ db_i' = db_i + 1
    /\ UNCHANGED <<db_tickers, db_pc>>
    /\ UNCHANGED dbOthers

\* Code.js:469-488: the loop has ended
FinishCode ==
    /\ db_pc = "codeLoop"
    /\ db_i > NumTickers
    /\ db_pc' = "codeDone"
    /\ UNCHANGED <<db_tickers, db_sheet, db_errors, db_i>>
    /\ UNCHANGED dbOthers

\* services/DashboardService.js:238-252: the old rows are cleared
StartService ==
    /\ db_pc = "ready"
    /\ db_sheet' = [i \in Tickers |-> [c \in Columns |-> Blank]]
    /\ db_i' = 1
    /\ db_pc' = "serviceLoop"
    /\ UNCHANGED <<db_tickers, db_errors>>
    /\ UNCHANGED dbOthers

\* services/DashboardService.js:265-286: one pass of the loop
ProcessTickerService ==
    /\ db_pc = "serviceLoop"
    /\ db_i <= NumTickers
    /\ db_sheet' = [db_sheet EXCEPT
                      ![db_i] = tickerRowService(db_i, db_tickers[db_i], db_sheet[db_i])]
    /\ db_i' = db_i + 1
    /\ UNCHANGED <<db_tickers, db_errors, db_pc>>
    /\ UNCHANGED dbOthers

\* services/DashboardService.js:288-298: the loop has ended
FinishService ==
    /\ db_pc = "serviceLoop"
    /\ db_i > NumTickers
    /\ db_pc' = "serviceDone"
    /\ UNCHANGED <<db_tickers, db_sheet, db_errors, db_i>>
    /\ UNCHANGED dbOthers

DashboardNext ==
    \/ StartCode
    \/ ProcessTickerCode
    \/ FinishCode
    \/ StartService
    \/ ProcessTickerService
    \/ FinishService

SpecDashboard == DashboardInit /\ [][DashboardNext]_vars

\* ---- claims about the dashboard run --------------------------------------

\* resolving ticker i throws in the variant that is running
ResolvingThrows(i) ==
    IF db_pc \in {"codeLoop", "codeDone"}
    THEN getPricesCode(db_tickers[i]).threw
    ELSE getPricesService(db_tickers[i]).threw

\* the name followed by the error sentinel in every return column
IsAllSentinelRow(i) ==
    /\ db_sheet[i]["name"] = Name(i)
    /\ \A c \in ReturnColumns : db_sheet[i][c] = ERROR

\* the run has written ticker j's row
IsProcessed(j) ==
    \/ db_sheet[j]["info"] = ErrorMessage
    \/ /\ db_sheet[j]["name"] = Name(j)
       /\ \A c \in ReturnColumns : db_sheet[j][c] \notin {Blank, Loading}

\* C1 for the run of Code.js alone
C1_CodeErrorRow ==
    \A i \in Tickers :
        (db_pc = "codeDone" /\ ResolvingThrows(i))
        => /\ \A j \in Tickers : j > i => IsProcessed(j)
           /\ IsAllSentinelRow(i)

\* the services run goes on after a ticker that throws
C1_ServiceContinues ==
    \A i \in Tickers :
        (db_pc = "serviceDone" /\ ResolvingThrows(i))
        => \A j \in Tickers : j > i => IsProcessed(j)

\* C1: when resolving ticker i throws, the run still processes every later
\* ticker of the list, and ticker i's row is its name followed by the error
\* sentinel in every return column.
C1_ErrorRowAndContinue ==
    \A i \in Tickers :
        (db_pc \in {"codeDone", "serviceDone"} /\ ResolvingThrows(i))
        => /\ \A j \in Tickers : j > i => IsProcessed(j)
           /\ IsAllSentinelRow(i)

\* ------------------------------------------------------------------------
\* Update lock: concurrent invocations of updatePerformanceDashboard.
\* Code.js guards the run with the in-progress properties and LockService's
\* script lock; services/DashboardService.js with the properties of
\* services/LockService.js alone.  Each property read or write is a step of
\* its own; what the body does to the sheet is the subject of SpecDashboard.
\* ------------------------------------------------------------------------

NumInvocations == 2
\* the clock runs from 0 to MaxClock minutes, ClockStep minutes at a time
MaxClock == 12
ClockStep == 6

Invocations == 1 .. NumInvocations

\* Code.js:56: elapsedMinutes > 10
STALE_MINUTES == 10
\* services/LockService.js:16: LOCK_TIMEOUT_MS, in minutes
LOCK_TIMEOUT_MS == 5

\* the time property is not set
NoTime == -1

\* Code.js:49-61: a start time is there and is more than 10 minutes old
IsStaleCode(startTime, now) ==
    startTime # NoTime /\ now - startTime > STALE_MINUTES

\* services/LockService.js:32-35: parseInt(time || '0') is more than
\* 5 minutes old; a missing time counts as 0, the epoch
IsStaleService(lastUpdateTime, now) ==
    lastUpdateTime = NoTime \/ now - lastUpdateTime > LOCK_TIMEOUT_MS

LockInit ==
    /\ lk_variant \in {"code", "service"}
    /\ lk_inProgress \in BOOLEAN
    /\ lk_time \in {NoTime, 0}
    /\ lk_scriptLock = 0
    /\ lk_now = 0
    /\ lk_pc = [i \in Invocations |-> "start"]
    /\ lk_lockAcquired = [i \in Invocations |-> FALSE]
    /\ lk_read = [i \in Invocations |-> [status |-> FALSE, time |-> NoTime]]
    /\ ReturnIdle /\ DateIdle /\ PricesIdle /\ DashboardIdle /\ MarketIdle /\ FnIdle

\* invocation i moves from one place to another, touching nothing else
Goto(i, from, to) ==
    /\ lk_pc[i] = from
    /\ lk_pc' = [lk_pc EXCEPT ![i] = to]

\* time passes
Tick ==
    /\ lk_variant \in {"code", "service"}
    /\ lk_now + ClockStep <= MaxClock
    /\ lk_now' = lk_now + ClockStep
    /\ UNCHANGED <<lk_variant, lk_inProgress, lk_time, lk_scriptLock,
                   lk_pc, lk_lockAcquired, lk_read>>
    /\ UNCHANGED lkOthers

\* ---- Code.js ---------------------------------------------------------------

\* isUpdateInProgress, line 41: props.getProperty('UPDATE_IN_PROGRESS')
CodeReadStatus(i) ==
    /\ lk_variant = "code"
    /\ Goto(i, "start", "readStartTime")
    /\ lk_read' = [lk_read EXCEPT ![i].status = lk_inProgress]
    /\ UNCHANGED <<lk_variant, lk_inProgress, lk_time, lk_scriptLock, lk_now,
                   lk_lockAcquired>>
    /\ UNCHANGED lkOthers

\* isUpdateInProgress, lines 42-63: the start time is read, and the call
\* returns false (no status), finds the run stuck, or returns true, on which
\* updatePerformanceDashboard alerts and returns
CodeReadStartTime(i) ==
    /\ lk_variant = "code"
    /\ lk_pc[i] = "readStartTime"
    /\ lk_read' = [lk_read EXCEPT ![i].time = lk_time]
    /\ lk_pc' = [lk_pc EXCEPT ![i] =
                    IF ~lk_read[i].status THEN "tryLock"
                    ELSE IF IsStaleCode(lk_time, lk_now) THEN "staleStatus"
                    ELSE "returned"]
    /\ UNCHANGED <<lk_variant, lk_inProgress, lk_time, lk_scriptLock, lk_now,
                   lk_lockAcquired>>
    /\ UNCHANGED lkOthers

\* (mutant of DeleteStatus: the flag is left as it is)
DeleteStatus_Kept(i, from, to) ==
    /\ lk_variant = "code"
    /\ Goto(i, from, to)
    /\ UNCHANGED <<lk_variant, lk_inProgress, lk_time, lk_scriptLock, lk_now,
                   lk_lockAcquired, lk_read>>
    /\ UNCHANGED lkOthers

\* clearUpdateStatus, line 89: deleteProperty('UPDATE_IN_PROGRESS')
DeleteStatus(i, from, to) ==
    /\ lk_variant = "code"
    /\ Goto(i, from, to)
    /\ lk_inProgress' = FALSE
    /\ UNCHANGED <<lk_variant, lk_time, lk_scriptLock, lk_now,
                   lk_lockAcquired, lk_read>>
    /\ UNCHANGED lkOthers

\* clearUpdateStatus, line 90: deleteProperty('UPDATE_START_TIME')
DeleteStartTime(i, from, to) ==
    /\ lk_variant = "code"
    /\ Goto(i, from, to)
    /\ lk_time' = NoTime
    /\ UNCHANGED <<lk_variant, lk_inProgress, lk_scriptLock, lk_now,
                   lk_lockAcquired, lk_read>>
    /\ UNCHANGED lkOthers

\* clearUpdateStatus called by isUpdateInProgress for a stuck run
CodeStaleDeleteStatus(i) == DeleteStatus(i, "staleStatus", "staleStartTime")
CodeStaleDeleteStartTime(i) == DeleteStartTime(i, "staleStartTime", "tryLock")

\* lock.tryLock(10000) returns true
TryLockAcquired(i) ==
    /\ lk_variant = "code"
    /\ Goto(i, "tryLock", "setStatus")
    /\ lk_scriptLock = 0
    /\ lk_scriptLock' = i
    /\ lk_lockAcquired' = [lk_lockAcquired EXCEPT ![i] = TRUE]
    /\ UNCHANGED <<lk_variant, lk_inProgress, lk_time, lk_now, lk_read>>
    /\ UNCHANGED lkOthers

\* lock.tryLock(10000) returns false: another invocation held the lock for
\* the 10 seconds; the return of line 164 leads into the finally block
TryLockTimedOut(i) ==
    /\ lk_variant = "code"
    /\ Goto(i, "tryLock", "finallyStatus")
    /\ lk_scriptLock # 0
    /\ UNCHANGED <<lk_variant, lk_inProgress, lk_time, lk_scriptLock, lk_now,
                   lk_lockAcquired, lk_read>>
    /\ UNCHANGED lkOthers

\* setUpdateInProgress, line 76: setProperty('UPDATE_IN_PROGRESS', 'true')
CodeSetStatus(i) ==
    /\ lk_variant = "code"
    /\ Goto(i, "setStatus", "setStartTime")
    /\ lk_inProgress' = TRUE
    /\ UNCHANGED <<lk_variant, lk_time, lk_scriptLock, lk_now,
                   lk_lockAcquired, lk_read>>
    /\ UNCHANGED lkOthers

\* setUpdateInProgress, line 77: setProperty('UPDATE_START_TIME', now)
CodeSetStartTime(i) ==
    /\ lk_variant = "code"
    /\ Goto(i, "setStartTime", "body")
    /\ lk_time' = lk_now
    /\ UNCHANGED <<lk_variant, lk_inProgress, lk_scriptLock, lk_now,
                   lk_lockAcquired, lk_read>>
    /\ UNCHANGED lkOthers

\* the ways the update of Code.js leaves its body: it completes (line 255),
\* returns early without a sheet (185), without a reference date (202),
\* without tickers (216), after a failure to render (229, 239), or throws
\* into the catch block (256-268)
CodeExits == {"completed", "noSheet", "noReferenceDate", "noTickers", "renderFailure",
              "thrown"}

\* lines 170-268: the update itself ends, in one of the ways of CodeExits
CodeBodyEnds(i) ==
    /\ lk_variant = "code"
    /\ lk_pc[i] = "body"
    /\ \E exit \in CodeExits : lk_pc' = [lk_pc EXCEPT ![i] = exit]
    /\ UNCHANGED <<lk_variant, lk_inProgress, lk_time, lk_scriptLock, lk_now,
                   lk_lockAcquired, lk_read>>
    /\ UNCHANGED lkOthers

\* every exit is inside the try block of line 157, so each leads into the
\* finally block of line 269
CodeEntersFinally(i) ==
    /\ lk_variant = "code"
    /\ lk_pc[i] \in CodeExits
    /\ lk_pc' = [lk_pc EXCEPT ![i] = "finallyStatus"]
    /\ UNCHANGED <<lk_variant, lk_inProgress, lk_time, lk_scriptLock, lk_now,
                   lk_lockAcquired, lk_read>>
    /\ UNCHANGED lkOthers

\* finally, line 271: clearUpdateStatus
CodeFinallyDeleteStatus(i) == DeleteStatus(i, "finallyStatus", "finallyStartTime")
CodeFinallyDeleteStartTime(i) == DeleteStartTime(i, "finallyStartTime", "release")

\* finally, lines 274-280: lock.releaseLock() if the lock was acquired
CodeRelease(i) ==
    /\ lk_variant = "code"
    /\ Goto(i, "release", "returned")
    /\ lk_scriptLock' = IF lk_lockAcquired[i] THEN 0 ELSE lk_scriptLock
    /\ UNCHANGED <<lk_variant, lk_inProgress, lk_time, lk_now,
                   lk_lockAcquired, lk_read>>
    /\ UNCHANGED lkOthers

\* ---- services/DashboardService.js, services/LockService.js -----------------

\* isUpdateInProgress, lines 25-29: the flag is read; without it the call
\* returns false
ServiceReadFlag(i, from, ifClear, ifSet) ==
    /\ lk_variant = "service"
    /\ lk_pc[i] = from
    /\ lk_read' = [lk_read EXCEPT ![i].status = lk_inProgress]
    /\ lk_pc' = [lk_pc EXCEPT ![i] = IF lk_inProgress THEN ifSet ELSE ifClear]
    /\ UNCHANGED <<lk_variant, lk_inProgress, lk_time, lk_scriptLock, lk_now,
                   lk_lockAcquired>>
    /\ UNCHANGED lkOthers

\* isUpdateInProgress, lines 32-43: the time is read; the lock is stale, or
\* the call returns true and the invocation gives up
ServiceReadTime(i, from, ifStale) ==
    /\ lk_variant = "service"
    /\ lk_pc[i] = from
    /\ lk_read' = [lk_read EXCEPT ![i].time = lk_time]
    /\ lk_pc' = [lk_pc EXCEPT ![i] =
                    IF IsStaleService(lk_time, lk_now) THEN ifStale ELSE "returned"]
    /\ UNCHANGED <<lk_variant, lk_inProgress, lk_time, lk_scriptLock, lk_now,
                   lk_lockAcquired>>
    /\ UNCHANGED lkOthers

\* clearUpdateLock, line 91: deleteProperty(UPDATE_IN_PROGRESS)
clearUpdateLock(i, from, to) ==
    /\ lk_variant = "service"
    /\ Goto(i, from, to)
    /\ lk_inProgress' = FALSE
    /\ UNCHANGED <<lk_variant, lk_time, lk_scriptLock, lk_now,
                   lk_lockAcquired, lk_read>>
    /\ UNCHANGED lkOthers

\* DashboardService.js:207: isUpdateInProgress()
CheckReadFlag(i) == ServiceReadFlag(i, "start", "acquire", "checkTime")
CheckReadTime(i) == ServiceReadTime(i, "checkTime", "checkStale")
CheckClearStale(i) == clearUpdateLock(i, "checkStale", "acquire")

\* acquireUpdateLock, line 57: isUpdateInProgress() again
AcquireReadFlag(i) == ServiceReadFlag(i, "acquire", "setFlag", "acquireTime")
AcquireReadTime(i) == ServiceReadTime(i, "acquireTime", "acquireStale")
AcquireClearStale(i) == clearUpdateLock(i, "acquireStale", "setFlag")

\* acquireUpdateLock, line 73: setProperty(UPDATE_IN_PROGRESS, 'true')
ServiceSetFlag(i) ==
    /\ lk_variant = "service"
    /\ Goto(i, "setFlag", "setTime")
    /\ lk_inProgress' = TRUE
    /\ UNCHANGED <<lk_variant, lk_time, lk_scriptLock, lk_now,
                   lk_lockAcquired, lk_read>>
    /\ UNCHANGED lkOthers

\* acquireUpdateLock, lines 74-78: the time (and the user) are set, and the
\* call returns true
ServiceSetTime(i) ==
    /\ lk_variant = "service"
    /\ Goto(i, "setTime", "body")
    /\ lk_time' = lk_now
    /\ lk_lockAcquired' = [lk_lockAcquired EXCEPT ![i] = TRUE]
    /\ UNCHANGED <<lk_variant, lk_inProgress, lk_scriptLock, lk_now, lk_read>>
    /\ UNCHANGED lkOthers

\* the ways the update of services/DashboardService.js leaves its body: it
\* completes (line 289), finds no tickers (254-261), or throws into the
\* catch block (299-304)
ServiceExits == {"completed", "noTickers", "thrown"}

\* DashboardService.js:232-286: the update itself ends, in one of the ways
\* of ServiceExits
ServiceBodyEnds(i) ==
    /\ lk_variant = "service"
    /\ lk_pc[i] = "body"
    /\ \E exit \in ServiceExits : lk_pc' = [lk_pc EXCEPT ![i] = exit]
    /\ UNCHANGED <<lk_variant, lk_inProgress, lk_time, lk_scriptLock, lk_now,
                   lk_lockAcquired, lk_read>>
    /\ UNCHANGED lkOthers

\* DashboardService.js:256, 289, 304: clearUpdateLock()
ServiceClearLock(i) == \E exit \in ServiceExits : clearUpdateLock(i, exit, "returned")

LockNext ==
    \/ Tick
    \/ \E i \in Invocations : CodeReadStatus(i)
    \/ \E i \in Invocations : CodeReadStartTime(i)
    \/ \E i \in Invocations : CodeStaleDeleteStatus(i)
    \/ \E i \in Invocations : CodeStaleDeleteStartTime(i)
    \/ \E i \in Invocations : TryLockAcquired(i)
    \/ \E i \in Invocations : TryLockTimedOut(i)
    \/ \E i \in Invocations : CodeSetStatus(i)
    \/ \E i \in Invocations : CodeSetStartTime(i)
    \/ \E i \in Invocations : CodeBodyEnds(i)
    \/ \E i \in Invocations : CodeEntersFinally(i)
    \/ \E i \in Invocations : CodeFinallyDeleteStatus(i)
    \/ \E i \in Invocations : CodeFinallyDeleteStartTime(i)
    \/ \E i \in Invocations : CodeRelease(i)
    \/ \E i \in Invocations : CheckReadFlag(i)
    \/ \E i \in Invocations : CheckReadTime(i)
    \/ \E i \in Invocations : CheckClearStale(i)
    \/ \E i \in Invocations : AcquireReadFlag(i)
    \/ \E i \in Invocations : AcquireReadTime(i)
    \/ \E i \in Invocations : AcquireClearStale(i)
    \/ \E i \in Invocations : ServiceSetFlag(i)
    \/ \E i \in Invocations : ServiceSetTime(i)
    \/ \E i \in Invocations : ServiceBodyEnds(i)
    \/ \E i \in Invocations : ServiceClearLock(i)

SpecLock == LockInit /\ [][LockNext]_vars

\* ---- claims about the update lock ------------------------------------------

\* the invocations that are past lock acquisition and in the update itself
InBody == {i \in Invocations : lk_pc[i] = "body"}

\* C3 for Code.js alone: the script lock admits one invocation at a time
C3_CodeSerialized ==
    lk_variant = "code" => Cardinality(InBody) <= 1

\* C3: at most one invocation of updatePerformanceDashboard at a time is
\* past lock acquisition and executing the ticker-processing body, in every
\* interleaving of concurrent invocations.
C3_RunsSerialized ==
    Cardinality(InBody) <= 1

\* ------------------------------------------------------------------------
\* MarketTimeManager (DateUtils.js).  An instant counts half hours in the
\* script's time zone; day 0 is 1 January of BaseYear.
\* ------------------------------------------------------------------------

\* half hours of a day: getHours() + getMinutes() / 60 takes steps of 0.5
HalfHoursPerDay == 48

\* this.markets of the constructor; openTime and closeTime in half hours
\* (9.5 is 19)
markets ==
    [kr |-> [offset |-> 9,  openTime |-> 18, closeTime |-> 31, tradingDays |-> 1 .. 5],
     us |-> [offset |-> -5, openTime |-> 19, closeTime |-> 32, tradingDays |-> 1 .. 5],
     cn |-> [offset |-> 8,  openTime |-> 19, closeTime |-> 30, tradingDays |-> 1 .. 5],
     eu |-> [offset |-> 0,  openTime |-> 16, closeTime |-> 33, tradingDays |-> 1 .. 5]]

Regions == DOMAIN markets

\* the calendar day of an instant, its day of the week (getDay()) and its
\* time of day (getHours() + getMinutes() / 60, in half hours)
MarketDayOf(t) == t \div HalfHoursPerDay
MarketGetDay(t) == (MarketDayOf(t) + WeekdayOfNewYear(BaseYear)) % 7
MarketHoursOf(t) == t % HalfHoursPerDay

\* marketDate.setHours(marketDate.getHours() + hourDiff)
SetHours(t, hourDiff) == t + 2 * hourDiff
\* marketDate.setDate(marketDate.getDate() - days)
SetDateBack(t, days) == t - days * HalfHoursPerDay

\* isSameDay(date1, date2)
isSameDay(date1, date2) == MarketDayOf(date1) = MarketDayOf(date2)

\* the while loop of getDaysToLastTradingDay
RECURSIVE WalkDays(_, _, _)
WalkDays(checkDay, daysToSubtract, tradingDays) ==
    IF checkDay \notin tradingDays /\ daysToSubtract < 10
    THEN WalkDays((checkDay - 1 + 7) % 7, daysToSubtract + 1, tradingDays)
    ELSE daysToSubtract

\* (mutant of getDaysToLastTradingDay: always two days back)
getDaysToLastTradingDay_TwoDays(currentDay, tradingDays) ==
    2

\* getDaysToLastTradingDay(currentDay, tradingDays)
getDaysToLastTradingDay(currentDay, tradingDays) ==
    WalkDays((currentDay - 1 + 7) % 7, 1, tradingDays)

\* the previous close: one day back, and further back from a day that is
\* not a trading day (lines 378-385 and 393-400)
PreviousClose(marketDate, tradingDays) ==
    LET previous == SetDateBack(marketDate, 1)
    IN  IF MarketGetDay(previous) \notin tradingDays
        THEN SetDateBack(previous,
                 getDaysToLastTradingDay(MarketGetDay(previous), tradingDays))
        ELSE previous

MarketResult(date, isToday, isCurrent, message, days) ==
    [date |-> date, isToday |-> isToday, isCurrent |-> isCurrent,
     message |-> message, days |-> days]

\* getMostRecentTradingDay(marketRegion, referenceDate), called at instant
\* now in a script whose time zone is localOffset hours ahead of GMT
getMostRecentTradingDay(marketRegion, referenceDate, now, localOffset) ==
    IF marketRegion \notin Regions
    THEN MarketResult(referenceDate, TRUE, TRUE, "unknown market", 0)
    ELSE
    LET market == markets[marketRegion]
        hourDiff == market.offset - localOffset
        marketDate == SetHours(referenceDate, hourDiff)
        marketNow == SetHours(now, hourDiff)
        dayOfWeek == MarketGetDay(marketDate)
        isTradingDay == dayOfWeek \in market.tradingDays
        marketHours == MarketHoursOf(marketNow)
        isAfterClose == marketHours >= market.closeTime
        isBeforeOpen == marketHours < market.openTime
        isToday == isSameDay(marketDate, marketNow)
    IN  IF ~isTradingDay
        THEN LET daysToSubtract == getDaysToLastTradingDay(dayOfWeek, market.tradingDays)
             IN  MarketResult(SetDateBack(marketDate, daysToSubtract), FALSE, FALSE,
                              "last trading day", daysToSubtract)
        ELSE IF isBeforeOpen
        THEN MarketResult(PreviousClose(marketDate, market.tradingDays), FALSE, FALSE,
                          "before open", 0)
        ELSE IF ~isAfterClose /\ isToday
        THEN MarketResult(PreviousClose(marketDate, market.tradingDays), FALSE, FALSE,
                          "mid session", 0)
        ELSE MarketResult(marketDate, isToday, TRUE, "today's close", 0)

\* isMarketOpen(marketRegion, checkDate)
isMarketOpen(marketRegion, checkDate, localOffset) ==
    IF marketRegion \notin Regions THEN FALSE
    ELSE LET market == markets[marketRegion]
             marketDate == SetHours(checkDate, market.offset - localOffset)
         IN  /\ MarketGetDay(marketDate) \in market.tradingDays
             /\ MarketHoursOf(marketDate) >= market.openTime
             /\ MarketHoursOf(marketDate) < market.closeTime

\* ------------------------------------------------------------------------
\* SpecMarket: a MarketTimeManager is constructed and one method called
\* ------------------------------------------------------------------------

\* reference dates: every half hour of MarketRefDays days from 1 January of
\* FirstRefYear on; the call is made on the same day or within the
\* MarketNowDays - 1 days after it
MarketRefDays == 7
MarketNowDays == 2

\* time zones of the script: GMT and GMT+9
LocalOffsets == {0, 9}

MarketInstants ==
    { (DaysBeforeYear(FirstRefYear) + n) * HalfHoursPerDay + h :
        n \in 0 .. (MarketRefDays - 1), h \in 0 .. (HalfHoursPerDay - 1) }

\* the instants of the call, given the reference date
MarketNows(referenceDate) ==
    { MarketDayOf(referenceDate) * HalfHoursPerDay + h :
        h \in 0 .. (MarketNowDays * HalfHoursPerDay - 1) }

NoMarketResult == MarketResult(0, FALSE, FALSE, "", 0)

\* a call of getMostRecentTradingDay or isMarketOpen is about to be made
MarketCallInit ==
    /\ mk_region \in Regions \cup {"xx"}
    /\ mk_referenceDate \in MarketInstants
    /\ mk_now \in MarketNows(mk_referenceDate)
    /\ mk_localOffset \in LocalOffsets
    /\ mk_currentDay = 0
    /\ mk_tradingDays = {}
    /\ mk_result = NoMarketResult
    /\ mk_pc = "new"

\* a call of getDaysToLastTradingDay is about to be made
DaysCallInit ==
    /\ mk_region = ""
    /\ mk_referenceDate = 0
    /\ mk_now = 0
    /\ mk_localOffset = 0
    /\ mk_currentDay \in 0 .. 6
    /\ mk_tradingDays \in SUBSET (0 .. 6)
    /\ mk_result = NoMarketResult
    /\ mk_pc = "newDays"

MarketInit ==
    /\ MarketCallInit \/ DaysCallInit
    /\ ReturnIdle /\ DateIdle /\ PricesIdle /\ DashboardIdle /\ LockIdle /\ FnIdle

MarketArgsUnchanged ==
    UNCHANGED <<mk_region, mk_referenceDate, mk_now, mk_localOffset,
                mk_currentDay, mk_tradingDays>>

GetMostRecentTradingDay ==
    /\ mk_pc = "new"
    /\ mk_result' = getMostRecentTradingDay(mk_region, mk_referenceDate, mk_now,
                                            mk_localOffset)
    /\ mk_pc' = "getMostRecentTradingDay"
    /\ MarketArgsUnchanged
    /\ UNCHANGED mkOthers

IsMarketOpen ==
    /\ mk_pc = "new"
    /\ mk_result' = [NoMarketResult EXCEPT
                        !.isCurrent = isMarketOpen(mk_region, mk_referenceDate,
                                                   mk_localOffset)]
    /\ mk_pc' = "isMarketOpen"
    /\ MarketArgsUnchanged
    /\ UNCHANGED mkOthers

GetDaysToLastTradingDay ==
    /\ mk_pc = "newDays"
    /\ mk_result' = [NoMarketResult EXCEPT
                        !.days = getDaysToLastTradingDay(mk_currentDay, mk_tradingDays)]
    /\ mk_pc' = "getDaysToLastTradingDay"
    /\ MarketArgsUnchanged
    /\ UNCHANGED mkOthers

MarketNext ==
    \/ GetMostRecentTradingDay
    \/ IsMarketOpen
    \/ GetDaysToLastTradingDay

SpecMarket == MarketInit /\ [][MarketNext]_vars

\* ---- claims about the MarketTimeManager ----------------------------------

\* the instant in the market's local time: the region's offset in place of
\* the script's
MarketLocal(region, instant, localOffset) ==
    instant + 2 * (markets[region].offset - localOffset)

\* the days back from a day of the week to the latest earlier day of the
\* week that is in the mask
DaysToLatestEarlier(day, mask) ==
    CHOOSE k \in 1 .. 7 :
        /\ (day - k + 7) % 7 \in mask
        /\ \A j \in 1 .. (k - 1) : (day - j + 7) % 7 \notin mask

\* C11: for an instant on a Saturday in the market's local time,
\* getMostRecentTradingDay returns the Friday before it when Friday is a
\* trading day, and getDaysToLastTradingDay leads from a Saturday to the
\* latest earlier day of the mask, whichever days the mask holds.
C11_SaturdayGivesFriday ==
    /\ ( /\ mk_pc = "getMostRecentTradingDay"
         /\ mk_region \in Regions
         /\ MarketGetDay(MarketLocal(mk_region, mk_referenceDate, mk_localOffset)) = 6 )
       => /\ MarketDayOf(mk_result.date)
               = MarketDayOf(MarketLocal(mk_region, mk_referenceDate, mk_localOffset))
                 - DaysToLatestEarlier(6, markets[mk_region].tradingDays)
          /\ 5 \in markets[mk_region].tradingDays => MarketGetDay(mk_result.date) = 5
    /\ ( /\ mk_pc = "getDaysToLastTradingDay"
         /\ mk_currentDay = 6
         /\ mk_tradingDays # {} )
       => mk_result.days = DaysToLatestEarlier(6, mk_tradingDays)

\* C11 witness: a Saturday instant of the US market answered with the Friday
\* before it
C11_Witness ==
    /\ mk_pc = "getMostRecentTradingDay"
    /\ mk_region = "us"
    /\ MarketGetDay(MarketLocal(mk_region, mk_referenceDate, mk_localOffset)) = 6
    /\ MarketGetDay(mk_result.date) = 5
    /\ mk_result.days = 1

\* a mask without Friday leads from Saturday to an earlier day
C11_WitnessMask ==
    /\ mk_pc = "getDaysToLastTradingDay"
    /\ mk_currentDay = 6
    /\ mk_tradingDays = {1, 2, 3}
    /\ mk_result.days = 3

\* ------------------------------------------------------------------------
\* Closest-date matching of the Naver provider
\* (services/providers/NaverProvider.js).  An entry is the instant that
\* new Date(dateStr) gives, in ticks, with its close price; NoDate stands for
\* an entry without a date string.
\* ------------------------------------------------------------------------

NoDate == -1

\* setHours(0, 0, 0, 0): midnight of the same day
AtMidnight(ts) == DayOf(ts) * TicksPerDay

\* Math.floor((now - targetDateObj) / (24 * 60 * 60 * 1000))
daysDiffOf(now, targetDateObj) == (now - targetDateObj) \div TicksPerDay

\* the timeframe parameter of the request
timeframeOf(daysDiff) ==
    IF daysDiff > 30 /\ daysDiff <= 90 THEN "3m"
    ELSE IF daysDiff > 90 /\ daysDiff <= 180 THEN "6m"
    ELSE IF daysDiff > 180 THEN "1y"
    ELSE "1d"

\* (mutant of acceptableDiffDays: 7 days whatever the age of the target)
acceptableDiffDays_Flat(daysDiff) ==
    7

\* NaverProvider.js:457-465 and 602-610
acceptableDiffDays(daysDiff) ==
    IF daysDiff > 30 /\ daysDiff <= 90 THEN 10
    ELSE IF daysDiff > 90 THEN 15
    ELSE 7

\* NaverProvider.js:778: daysDiff > 90 ? 15 : 7
acceptableDiffDaysChart(daysDiff) ==
    IF daysDiff > 90 THEN 15 ELSE 7

\* (mutant of IsExactMatch: a day off counts as exact)
IsExactMatch_WithinDay(diff) ==
    diff <= TicksPerDay

\* diff === 0
IsExactMatch(diff) ==
    diff = 0

\* the for loop over the entries, from entry k on: the first exact match
\* ends it; otherwise the first entry of the least diff is kept.  minDiff
\* is -1 for Infinity, closestEntry is 0 for null
RECURSIVE ScanEntries(_, _, _, _, _)
ScanEntries(entries, k, targetDate, closestEntry, minDiff) ==
    IF k > Len(entries)
    THEN [exact |-> FALSE, entry |-> closestEntry, minDiff |-> minDiff]
    ELSE IF entries[k].date = NoDate
    THEN ScanEntries(entries, k + 1, targetDate, closestEntry, minDiff)
    ELSE LET diff == Abs(AtMidnight(entries[k].date) - targetDate)
         IN  IF IsExactMatch(diff)
             THEN [exact |-> TRUE, entry |-> k, minDiff |-> diff]
             ELSE IF minDiff = -1 \/ diff < minDiff
             THEN ScanEntries(entries, k + 1, targetDate, k, diff)
             ELSE ScanEntries(entries, k + 1, targetDate, closestEntry, minDiff)

MatchResult(matched, price, daysDiff, tolerance) ==
    [matched |-> matched, price |-> price, daysDiff |-> daysDiff,
     timeframe |-> timeframeOf(daysDiff), acceptableDiffDays |-> tolerance]

\* the matching of one path: the price of the exact match, or of the
\* closest entry within tolerance days; otherwise the path goes on to its
\* fallback
closestDateMatch(entries, date, now, tolerance) ==
    LET daysDiff == daysDiffOf(now, date)
        scan == ScanEntries(entries, 1, AtMidnight(date), 0, -1)
    IN  IF scan.exact
        THEN MatchResult(TRUE, entries[scan.entry].price, daysDiff, tolerance)
        ELSE IF scan.entry # 0 /\ scan.minDiff <= tolerance * TicksPerDay
        THEN MatchResult(TRUE, entries[scan.entry].price, daysDiff, tolerance)
        ELSE MatchResult(FALSE, 0, daysDiff, tolerance)

\* getKosdaqHistoricalPriceViaMobileAPI, lines 424-474
matchMobileAPI(entries, date, now) ==
    closestDateMatch(entries, date, now, acceptableDiffDays(daysDiffOf(now, date)))

\* getIndexHistoricalPriceViaAPI, lines 559-620
matchIndexAPI(entries, date, now) ==
    closestDateMatch(entries, date, now, acceptableDiffDays(daysDiffOf(now, date)))

\* getEstimatedHistoricalKosdaqPrice, lines 746-784
matchChartAPI(entries, date, now) ==
    closestDateMatch(entries, date, now, acceptableDiffDaysChart(daysDiffOf(now, date)))

\* ------------------------------------------------------------------------
\* SpecMatch: one request for a historical index price is matched against
\* the entries of a response, on each of the three JSON paths.
\* ------------------------------------------------------------------------

MaxEntries == 2
MaxClose == 2

\* the day of the target date
MatchTargetDay == DaysBeforeYear(NowYear)

\* days from the target day to the day of an entry
EntryOffsets == {-16, -11, -8, 0, 1, 7, 10, 15}

\* whole days from the target day to the day of the call
TargetAges == {31, 45, 91, 181, 200}

\* an entry is traded at the last tick of its day
MatchEntries ==
    {[date |-> (MatchTargetDay + o) * TicksPerDay + (TicksPerDay - 1), price |-> p] :
        o \in EntryOffsets, p \in 1..MaxClose}
    \cup {[date |-> NoDate, price |-> 1]}

MatchEntryLists == UNION {[1..n -> MatchEntries] : n \in 0..MaxEntries}

NoMatchResult == MatchResult(FALSE, 0, 0, 0)

MatchInit ==
    /\ \E entries \in MatchEntryLists, age \in TargetAges,
          dateTick \in 0..(TicksPerDay - 1), nowTick \in 0..(TicksPerDay - 1) :
          fn_args = [entries |-> entries,
                     date |-> MatchTargetDay * TicksPerDay + dateTick,
                     now |-> (MatchTargetDay + age) * TicksPerDay + nowTick]
    /\ fn_result = NoMatchResult
    /\ fn_pc = "ready"
    /\ ReturnIdle /\ DateIdle /\ PricesIdle /\ DashboardIdle /\ LockIdle /\ MarketIdle

MatchMobileAPI ==
    /\ fn_pc = "ready"
    /\ fn_result' = matchMobileAPI(fn_args.entries, fn_args.date, fn_args.now)
    /\ fn_pc' = "getKosdaqHistoricalPriceViaMobileAPI"
    /\ UNCHANGED fn_args
    /\ UNCHANGED fnOthers

MatchIndexAPI ==
    /\ fn_pc = "ready"
    /\ fn_result' = matchIndexAPI(fn_args.entries, fn_args.date, fn_args.now)
    /\ fn_pc' = "getIndexHistoricalPriceViaAPI"
    /\ UNCHANGED fn_args
    /\ UNCHANGED fnOthers

MatchChartAPI ==
    /\ fn_pc = "ready"
    /\ fn_result' = matchChartAPI(fn_args.entries, fn_args.date, fn_args.now)
    /\ fn_pc' = "getEstimatedHistoricalKosdaqPrice"
    /\ UNCHANGED fn_args
    /\ UNCHANGED fnOthers

MatchNext ==
    \/ MatchMobileAPI
    \/ MatchIndexAPI
    \/ MatchChartAPI

SpecMatch == MatchInit /\ [][MatchNext]_vars

MatchPaths == {"getKosdaqHistoricalPriceViaMobileAPI", "getIndexHistoricalPriceViaAPI",
               "getEstimatedHistoricalKosdaqPrice"}

\* the entries with a date, and the days between an entry and the target
Dated(entries) == {k \in 1..Len(entries) : entries[k].date # NoDate}

DaysApart(entry, date) == Abs(DayOf(entry.date) - DayOf(date))

ExactEntries(entries, date) == {k \in Dated(entries) : DaysApart(entries[k], date) = 0}

\* C12: when some candidate's date equals the target date, the matcher
\* returns the price of a candidate of that date, whatever the distances of
\* the other candidates and whatever the order of the list.
C12_ExactMatchWins ==
    (fn_pc \in MatchPaths /\ ExactEntries(fn_args.entries, fn_args.date) # {})
        => /\ fn_result.matched
           /\ \E k \in ExactEntries(fn_args.entries, fn_args.date) :
                 fn_result.price = fn_args.entries[k].price

\* an exact candidate of one price stands after a candidate of another
\* price one day off, and its price is returned
C12_Witness ==
    /\ fn_pc \in MatchPaths
    /\ Len(fn_args.entries) = 2
    /\ fn_args.entries[1].date # NoDate
    /\ DaysApart(fn_args.entries[1], fn_args.date) = 1
    /\ 2 \in ExactEntries(fn_args.entries, fn_args.date)
    /\ fn_args.entries[1].price # fn_args.entries[2].price
    /\ fn_result.matched
    /\ fn_result.price = fn_args.entries[2].price

\* the tolerance the age of the target calls for: 7 days up to 30 days old,
\* 10 days up to 90 days old, 15 days beyond
SlidingTolerance(daysDiff) ==
    IF daysDiff <= 30 THEN 7 ELSE IF daysDiff <= 90 THEN 10 ELSE 15

\* some dated entry lies within the given number of days of the target
WithinDays(entries, date, days) ==
    \E k \in Dated(entries) : DaysApart(entries[k], date) <= days

\* the two price API paths accept a match exactly within the sliding
\* tolerance
C13_PriceAPIPaths ==
    fn_pc \in {"getKosdaqHistoricalPriceViaMobileAPI", "getIndexHistoricalPriceViaAPI"}
        => (fn_result.matched <=>
               WithinDays(fn_args.entries, fn_args.date,
                          SlidingTolerance(fn_result.daysDiff)))

\* C13: on every JSON path that matches by closest date, a match is
\* accepted exactly when it lies within the tolerance of the target's age:
\* 7 days for a target at most 30 days old, 10 days for one at most 90 days
\* old, 15 days beyond.
C13_SlidingTolerance ==
    fn_pc \in MatchPaths
        => (fn_result.matched <=>
               WithinDays(fn_args.entries, fn_args.date,
                          SlidingTolerance(fn_result.daysDiff)))

\* C14: a request 200 days back asks for the 1y timeframe and accepts a
\* closest-date match exactly when it lies within 15 days of the target.
C14_TwoHundredDays ==
    (fn_pc \in MatchPaths /\ daysDiffOf(fn_args.now, fn_args.date) = 200)
        => /\ fn_result.timeframe = "1y"
           /\ fn_result.matched <=> WithinDays(fn_args.entries, fn_args.date, 15)

\* 200 days back an entry 15 days off is accepted although none is nearer
C14_Witness ==
    /\ fn_pc \in MatchPaths
    /\ daysDiffOf(fn_args.now, fn_args.date) = 200
    /\ fn_result.timeframe = "1y"
    /\ Dated(fn_args.entries) # {}
    /\ \A k \in Dated(fn_args.entries) : DaysApart(fn_args.entries[k], fn_args.date) >= 15
    /\ fn_result.matched

\* 200 days back an entry 16 days off is refused
C14_WitnessRefused ==
    /\ fn_pc \in MatchPaths
    /\ daysDiffOf(fn_args.now, fn_args.date) = 200
    /\ Dated(fn_args.entries) # {}
    /\ \A k \in Dated(fn_args.entries) : DaysApart(fn_args.entries[k], fn_args.date) = 16
    /\ ~fn_result.matched

\* ------------------------------------------------------------------------
\* Strings.  A string is the sequence of its characters, so that case
\* folding, trimming, pattern tests and concatenation are computed on the
\* characters; a source or symbol may also be undefined or null.
\* ------------------------------------------------------------------------

JSString(chars) == [t |-> "string", chars |-> chars]
Missing(t) == [t |-> t, chars |-> <<>>]
IsJSString(x) == x.t = "string"

\* !x is false: a string that is not empty
Truthy(x) == IsJSString(x) /\ x.chars # <<>>

UpperChars == <<"A", "B", "C", "D", "E", "F", "G", "H", "I", "J", "K", "L", "M",
                "N", "O", "P", "Q", "R", "S", "T", "U", "V", "W", "X", "Y", "Z">>
LowerChars == <<"a", "b", "c", "d", "e", "f", "g", "h", "i", "j", "k", "l", "m",
                "n", "o", "p", "q", "r", "s", "t", "u", "v", "w", "x", "y", "z">>
Digits == {"0", "1", "2", "3", "4", "5", "6", "7", "8", "9"}

ToLowerChar(c) ==
    IF \E i \in DOMAIN UpperChars : UpperChars[i] = c
    THEN LowerChars[CHOOSE i \in DOMAIN UpperChars : UpperChars[i] = c]
    ELSE c

ToUpperChar(c) ==
    IF \E i \in DOMAIN LowerChars : LowerChars[i] = c
    THEN UpperChars[CHOOSE i \in DOMAIN LowerChars : LowerChars[i] = c]
    ELSE c

toLowerCase(chars) == [i \in 1..Len(chars) |-> ToLowerChar(chars[i])]
toUpperCase(chars) == [i \in 1..Len(chars) |-> ToUpperChar(chars[i])]

RECURSIVE trimStart(_)
trimStart(chars) ==
    IF chars # <<>> /\ Head(chars) = " " THEN trimStart(Tail(chars)) ELSE chars

RECURSIVE trimEnd(_)
trimEnd(chars) ==
    IF chars # <<>> /\ chars[Len(chars)] = " "
    THEN trimEnd(SubSeq(chars, 1, Len(chars) - 1))
    ELSE chars

trim(chars) == trimEnd(trimStart(chars))

\* /^\d{6}$/.test(symbol)
IsSixDigits(chars) == Len(chars) = 6 /\ \A i \in 1..6 : chars[i] \in Digits

endsWith(chars, suffix) ==
    /\ Len(suffix) <= Len(chars)
    /\ SubSeq(chars, Len(chars) - Len(suffix) + 1, Len(chars)) = suffix

includes(chars, part) ==
    \E i \in 1..(Len(chars) - Len(part) + 1) :
        SubSeq(chars, i, i + Len(part) - 1) = part

\* ------------------------------------------------------------------------
\* Routing a source name to a provider
\* (DataProviders.js and services/providers/ProviderFactory.js).
\* ------------------------------------------------------------------------

google == <<"g", "o", "o", "g", "l", "e">>
yahoo == <<"y", "a", "h", "o", "o">>
naver == <<"n", "a", "v", "e", "r">>

RouteResult(threw, provider, logged) ==
    [threw |-> threw, provider |-> provider, logged |-> logged,
     region |-> "", symbol |-> Missing("undefined")]

\* (source || "").toLowerCase().trim()
lowerSourceOf(source) ==
    trim(toLowerCase(IF Truthy(source) THEN source.chars ELSE <<>>))

\* DataProviders.js getProvider: an unknown name is logged and Yahoo is used
getProviderCode(source) ==
    LET lowerSource == lowerSourceOf(source)
    IN  IF lowerSource = google THEN RouteResult(FALSE, "google", FALSE)
        ELSE IF lowerSource = yahoo THEN RouteResult(FALSE, "yahoo", FALSE)
        ELSE IF lowerSource = naver THEN RouteResult(FALSE, "naver", FALSE)
        ELSE RouteResult(FALSE, "yahoo", TRUE)

\* ProviderFactory.js getProvider: a missing and an unknown name throw
getProviderService(source) ==
    IF ~Truthy(source)
    THEN RouteResult(TRUE, "", FALSE)
    ELSE LET lowerSource == trim(toLowerCase(source.chars))
         IN  IF lowerSource = google THEN RouteResult(FALSE, "google", FALSE)
             ELSE IF lowerSource = yahoo THEN RouteResult(FALSE, "yahoo", FALSE)
             ELSE IF lowerSource = naver THEN RouteResult(FALSE, "naver", FALSE)
             ELSE RouteResult(TRUE, "", FALSE)

\* ------------------------------------------------------------------------
\* The market region of a ticker (DateUtils.js getMarketRegion).
\* ------------------------------------------------------------------------

RegionResult(threw, region) ==
    [RouteResult(threw, "", FALSE) EXCEPT !.region = region]

EuropeanMarks == {<<".", "P", "A">>, <<".", "L">>, <<".", "F">>, <<".", "M", "C">>,
                  <<".", "A", "S">>, <<".", "M", "I">>}
ChineseEndings == {<<".", "S", "S">>, <<".", "S", "Z">>, <<".", "H", "K">>}

\* the symbol patterns, for a symbol that is a non-empty string
regionOfSymbol(chars) ==
    IF IsSixDigits(chars) THEN "kr"
    ELSE IF \E e \in ChineseEndings : endsWith(chars, e) THEN "cn"
    ELSE IF \E e \in EuropeanMarks : includes(chars, e) THEN "eu"
    ELSE "us"

\* source.toLowerCase() is a TypeError for a source that is undefined or
\* null
getMarketRegion(source, symbol) ==
    IF ~IsJSString(source) THEN RegionResult(TRUE, "")
    ELSE IF toLowerCase(source.chars) = naver THEN RegionResult(FALSE, "kr")
    ELSE IF Truthy(symbol) THEN RegionResult(FALSE, regionOfSymbol(symbol.chars))
    ELSE RegionResult(FALSE, "us")

\* ------------------------------------------------------------------------
\* The symbol handed to a price source.
\* ------------------------------------------------------------------------

SymbolResult(threw, provider, symbol) ==
    [RouteResult(threw, provider, FALSE) EXCEPT !.symbol = symbol]

KRXPrefix == <<"K", "R", "X", ":">>
KSSuffix == <<".", "K", "S">>

\* indexMap of DataProviders.js formatSymbol
indexMap ==
    [name \in {<<"D", "J", "I">>, <<"D", "J", "I", "A">>, <<"D", "O", "W">>} |->
        <<"I", "N", "D", "E", "X", "D", "J", "X", ":", ".", "D", "J", "I">>]
    @@ [name \in {<<"S", "&", "P", "5", "0", "0">>, <<"S", "P", "X">>, <<"S", "&", "P">>} |->
        <<"I", "N", "D", "E", "X", "S", "P", ":", ".", "I", "N", "X">>]
    @@ [name \in {<<"N", "A", "S", "D", "A", "Q">>, <<"N", "D", "X">>} |->
        <<"I", "N", "D", "E", "X", "N", "A", "S", "D", "A", "Q", ":", ".", "I", "X", "I", "C">>]
    @@ [name \in {<<"K", "O", "S", "P", "I">>} |-> KRXPrefix \o <<"K", "O", "S", "P", "I">>]

\* DataProviders.js formatSymbol: only the index names are rewritten
formatSymbolCode(symbol, provider) ==
    IF ~Truthy(symbol) THEN symbol
    ELSE IF lowerSourceOf(provider) = google
            /\ toUpperCase(symbol.chars) \in DOMAIN indexMap
    THEN JSString(indexMap[toUpperCase(symbol.chars)])
    ELSE symbol

\* ProviderFactory.js formatSymbol
formatSymbolService(symbol, provider) ==
    IF ~Truthy(symbol) THEN symbol
    ELSE LET lowerProvider == lowerSourceOf(provider)
         IN  IF lowerProvider = google
                /\ IsSixDigits(symbol.chars) /\ ~includes(symbol.chars, <<":">>)
             THEN JSString(KRXPrefix \o symbol.chars)
             ELSE IF lowerProvider = yahoo
                /\ IsSixDigits(symbol.chars) /\ ~includes(symbol.chars, <<".">>)
             THEN JSString(symbol.chars \o KSSuffix)
             ELSE symbol

\* encodeURIComponent, on the characters of the symbols
EncodeChar(c) ==
    CASE c = ":" -> <<"%", "3", "A">>
      [] c = "^" -> <<"%", "5", "E">>
      [] c = "&" -> <<"%", "2", "6">>
      [] c = " " -> <<"%", "2", "0">>
      [] OTHER -> <<c>>

RECURSIVE EncodeChars(_)
EncodeChars(chars) ==
    IF chars = <<>> THEN <<>> ELSE EncodeChar(Head(chars)) \o EncodeChars(Tail(chars))

\* String(undefined) and String(null), as a template literal and
\* encodeURIComponent write them
ToChars(x) ==
    IF IsJSString(x) THEN x.chars
    ELSE IF x.t = "null" THEN <<"n", "u", "l", "l">>
    ELSE <<"u", "n", "d", "e", "f", "i", "n", "e", "d">>

encodeSymbol(symbol) == JSString(EncodeChars(ToChars(symbol)))

\* the symbol in the request for the current price that a provider makes
\* of the symbol getPrice was called with
requestedOfCode(provider, symbol) ==
    IF provider = "yahoo" THEN encodeSymbol(symbol) ELSE JSString(ToChars(symbol))

requestedOfService(provider, symbol) ==
    IF provider = "google" THEN JSString(ToChars(formatSymbolService(symbol, JSString(google))))
    ELSE IF provider = "yahoo" THEN encodeSymbol(symbol)
    ELSE JSString(ToChars(symbol))

\* Code.js getPrices: the provider of the source is called with
\* DataProviderFactory.formatSymbol(symbol, source)
handedSymbolCode(source, symbol) ==
    LET dataProvider == getProviderCode(source)
    IN  SymbolResult(FALSE, dataProvider.provider,
                     requestedOfCode(dataProvider.provider,
                                     formatSymbolCode(symbol, source)))

\* PriceService.js getPrices: the provider of the source is called with the
\* symbol of the row
handedSymbolService(source, symbol) ==
    LET dataProvider == getProviderService(source)
    IN  IF dataProvider.threw
        THEN SymbolResult(TRUE, "", Missing("undefined"))
        ELSE SymbolResult(FALSE, dataProvider.provider,
                          requestedOfService(dataProvider.provider, symbol))

\* ------------------------------------------------------------------------
\* SpecRoute: one of the routing functions is called on a source and a
\* symbol of a ticker row.
\* ------------------------------------------------------------------------

RouteSources ==
    {JSString(google), JSString(yahoo), JSString(naver),
     JSString(<<"G", "o", "o", "g", "l", "e">>),
     JSString(<<" ", "Y", "A", "H", "O", "O", " ">>),
     JSString(<<"N", "a", "v", "e", "r">>),
     JSString(<<"b", "i", "n", "g">>),
     JSString(<<" ">>), JSString(<<>>),
     Missing("undefined"), Missing("null")}

Samsung == <<"0", "0", "5", "9", "3", "0">>

RouteSymbols ==
    {JSString(Samsung), JSString(<<"0", "3", "5", "7", "2", "0">>),
     JSString(Samsung \o KSSuffix), JSString(KRXPrefix \o Samsung),
     JSString(<<"1", "2", "3", "4", "5">>),
     JSString(<<"A", "A", "P", "L">>),
     JSString(<<"6", "0", "0", "0", "0", "0", ".", "S", "S">>),
     JSString(<<"0", "7", "0", "0", ".", "H", "K">>),
     JSString(<<"M", "C", ".", "P", "A">>),
     JSString(<<"V", "O", "D", ".", "L">>),
     JSString(<<"k", "o", "s", "p", "i">>),
     JSString(<<"^", "K", "S", "1", "1">>),
     JSString(<<>>), Missing("undefined"), Missing("null")}

RouteInit ==
    /\ \E source \in RouteSources, symbol \in RouteSymbols :
          fn_args = [source |-> source, symbol |-> symbol]
    /\ fn_result = RouteResult(FALSE, "", FALSE)
    /\ fn_pc = "ready"
    /\ ReturnIdle /\ DateIdle /\ PricesIdle /\ DashboardIdle /\ LockIdle /\ MarketIdle

GetProviderCode ==
    /\ fn_pc = "ready"
    /\ fn_result' = getProviderCode(fn_args.source)
    /\ fn_pc' = "getProviderCode"
    /\ UNCHANGED fn_args
    /\ UNCHANGED fnOthers

GetProviderService ==
    /\ fn_pc = "ready"
    /\ fn_result' = getProviderService(fn_args.source)
    /\ fn_pc' = "getProviderService"
    /\ UNCHANGED fn_args
    /\ UNCHANGED fnOthers

GetMarketRegion ==
    /\ fn_pc = "ready"
    /\ fn_result' = getMarketRegion(fn_args.source, fn_args.symbol)
    /\ fn_pc' = "getMarketRegion"
    /\ UNCHANGED fn_args
    /\ UNCHANGED fnOthers

FormatSymbolCode ==
    /\ fn_pc = "ready"
    /\ fn_result' = SymbolResult(FALSE, "", formatSymbolCode(fn_args.symbol, fn_args.source))
    /\ fn_pc' = "formatSymbolCode"
    /\ UNCHANGED fn_args
    /\ UNCHANGED fnOthers

FormatSymbolService ==
    /\ fn_pc = "ready"
    /\ fn_result' = SymbolResult(FALSE, "", formatSymbolService(fn_args.symbol, fn_args.source))
    /\ fn_pc' = "formatSymbolService"
    /\ UNCHANGED fn_args
    /\ UNCHANGED fnOthers

HandSymbolCode ==
    /\ fn_pc = "ready"
    /\ fn_result' = handedSymbolCode(fn_args.source, fn_args.symbol)
    /\ fn_pc' = "getPricesCode"
    /\ UNCHANGED fn_args
    /\ UNCHANGED fnOthers

HandSymbolService ==
    /\ fn_pc = "ready"
    /\ fn_result' = handedSymbolService(fn_args.source, fn_args.symbol)
    /\ fn_pc' = "getPricesService"
    /\ UNCHANGED fn_args
    /\ UNCHANGED fnOthers

RouteNext ==
    \/ GetProviderCode
    \/ GetProviderService
    \/ GetMarketRegion
    \/ FormatSymbolCode
    \/ FormatSymbolService
    \/ HandSymbolCode
    \/ HandSymbolService

SpecRoute == RouteInit /\ [][RouteNext]_vars

\* the source is none of the three known names
IsUnknownSource(source) ==
    lowerSourceOf(source) \notin {google, yahoo, naver}

\* the router of DataProviders.js answers an unknown source with Yahoo, a
\* log line and no exception
C15_CodeDefaultsToYahoo ==
    (fn_pc = "getProviderCode" /\ IsUnknownSource(fn_args.source))
        => (~fn_result.threw /\ fn_result.provider = "yahoo" /\ fn_result.logged)

\* C15: routing is total: for every source that is not one of the three
\* known names, the empty and the missing one included, the router logs,
\* returns the Yahoo provider and does not throw.
C15_RouteTotal ==
    (fn_pc \in {"getProviderCode", "getProviderService"}
        /\ IsUnknownSource(fn_args.source))
        => (~fn_result.threw /\ fn_result.provider = "yahoo" /\ fn_result.logged)

\* the region function answers every source that is a string: with one of
\* the four regions, and with us when the source is not Naver and no symbol
\* pattern applies
C16_StringSourceTotal ==
    (fn_pc = "getMarketRegion" /\ IsJSString(fn_args.source))
        => /\ ~fn_result.threw
           /\ fn_result.region \in Regions
           /\ (toLowerCase(fn_args.source.chars) # naver
                  /\ (~Truthy(fn_args.symbol) \/ regionOfSymbol(fn_args.symbol.chars) = "us"))
                => fn_result.region = "us"

\* C16: the region function is total: for every source and symbol, a
\* missing or empty one included, it returns one of the four regions
\* without throwing.
C16_RegionTotal ==
    fn_pc = "getMarketRegion"
        => (~fn_result.threw /\ fn_result.region \in Regions)

\* the code with something before it, and with something after it
HasExchangePrefix(chars, code) == Len(chars) > Len(code) /\ endsWith(chars, code)
HasExchangeSuffix(chars, code) ==
    Len(chars) > Len(code) /\ SubSeq(chars, 1, Len(code)) = code

\* what a source of the given name is to be handed for a bare code
HandedAsClaimed(name, handed, code) ==
    /\ IsJSString(handed)
    /\ name = google => HasExchangePrefix(handed.chars, code)
    /\ name = yahoo => HasExchangeSuffix(handed.chars, code)
    /\ name = naver => handed.chars = code

IsBareCode(symbol) == IsJSString(symbol) /\ IsSixDigits(symbol.chars)

\* formatSymbol of ProviderFactory.js gives a bare code its prefix for
\* Google, its suffix for Yahoo and leaves it alone for Naver
C17_FormatSymbolService ==
    (fn_pc = "formatSymbolService" /\ IsBareCode(fn_args.symbol)
        /\ ~IsUnknownSource(fn_args.source))
        => HandedAsClaimed(lowerSourceOf(fn_args.source), fn_result.symbol,
                           fn_args.symbol.chars)

\* C17: for every bare 6-digit code, the symbol handed to the price source
\* is the code with an exchange prefix for Google, with an exchange suffix
\* for Yahoo, and the code itself for Naver.
C17_HandedSymbol ==
    (fn_pc \in {"getPricesCode", "getPricesService"} /\ IsBareCode(fn_args.symbol)
        /\ ~IsUnknownSource(fn_args.source) /\ ~fn_result.threw)
        => HandedAsClaimed(lowerSourceOf(fn_args.source), fn_result.symbol,
                           fn_args.symbol.chars)

\* ------------------------------------------------------------------------
\* SpecSource: a provider operation meets one upstream outcome
\* (services/providers/NaverProvider.js, services/providers/ProviderFactory.js).
\* UrlFetchApp.fetch throws (a timeout) or gives a response with a status
\* code and a body: "quote" holds the value asked for, "none" is a well-formed
\* answer without it, "malformed" cannot be read.
\* ------------------------------------------------------------------------

StatusCodes == {200, 404, 500}
Bodies == {"quote", "none", "malformed"}

Upstreams ==
    [fetch : {"timeout"}, code : {0}, body : {"none"}, price : 1..MaxPrice]
    \cup [fetch : {"response"}, code : StatusCodes, body : Bodies, price : 1..MaxPrice]

\* NaverFinanceProvider.getPrice of a stock: every failure is answered with
\* the NO_DATA status
naverGetPrice(up) ==
    IF up.fetch = "timeout" THEN NO_DATA
    ELSE IF up.code # 200 THEN NO_DATA
    ELSE IF up.body = "quote" THEN Num(up.price)
    ELSE NO_DATA

\* NaverFinanceProvider.getHighPrice of a stock: without the 52-week high
\* on the page the current price is asked for
naverGetHighPrice(up) ==
    IF up.fetch = "timeout" THEN NO_DATA
    ELSE IF up.code # 200 THEN NO_DATA
    ELSE IF up.body = "quote" THEN Num(up.price)
    ELSE naverGetPrice(up)

\* the body of the three Yahoo operations: muteHttpExceptions is set and
\* the status code is not looked at; a fetch or JSON.parse exception is
\* caught and 0 is returned, as for an answer without the value
yahooRead(up) ==
    IF up.fetch = "timeout" THEN Num(0)
    ELSE IF up.body = "malformed" THEN Num(0)
    ELSE IF up.body = "quote" THEN Num(up.price)
    ELSE Num(0)

yahooGetCurrentPrice(up) == yahooRead(up)
yahooGetHistoricalPrice(up) == yahooRead(up)
yahooGetHighPrice(up) == yahooRead(up)

SourceInit ==
    /\ fn_args \in Upstreams
    /\ fn_result = Undefined
    /\ fn_pc = "ready"
    /\ ReturnIdle /\ DateIdle /\ PricesIdle /\ DashboardIdle /\ LockIdle /\ MarketIdle

NaverGetPrice ==
    /\ fn_pc = "ready"
    /\ fn_result' = naverGetPrice(fn_args)
    /\ fn_pc' = "NaverFinanceProvider.getPrice"
    /\ UNCHANGED fn_args
    /\ UNCHANGED fnOthers

NaverGetHighPrice ==
    /\ fn_pc = "ready"
    /\ fn_result' = naverGetHighPrice(fn_args)
    /\ fn_pc' = "NaverFinanceProvider.getHighPrice"
    /\ UNCHANGED fn_args
    /\ UNCHANGED fnOthers

YahooGetCurrentPrice ==
    /\ fn_pc = "ready"
    /\ fn_result' = yahooGetCurrentPrice(fn_args)
    /\ fn_pc' = "YahooFinanceProvider.getCurrentPrice"
    /\ UNCHANGED fn_args
    /\ UNCHANGED fnOthers

YahooGetHistoricalPrice ==
    /\ fn_pc = "ready"
    /\ fn_result' = yahooGetHistoricalPrice(fn_args)
    /\ fn_pc' = "YahooFinanceProvider.getHistoricalPrice"
    /\ UNCHANGED fn_args
    /\ UNCHANGED fnOthers

YahooGetHighPrice ==
    /\ fn_pc = "ready"
    /\ fn_result' = yahooGetHighPrice(fn_args)
    /\ fn_pc' = "YahooFinanceProvider.getHighPrice"
    /\ UNCHANGED fn_args
    /\ UNCHANGED fnOthers

SourceNext ==
    \/ NaverGetPrice
    \/ NaverGetHighPrice
    \/ YahooGetCurrentPrice
    \/ YahooGetHistoricalPrice
    \/ YahooGetHighPrice

SpecSource == SourceInit /\ [][SourceNext]_vars

NaverOperations == {"NaverFinanceProvider.getPrice", "NaverFinanceProvider.getHighPrice"}
YahooOperations == {"YahooFinanceProvider.getCurrentPrice",
                    "YahooFinanceProvider.getHistoricalPrice",
                    "YahooFinanceProvider.getHighPrice"}

\* timeout, non-200 response or malformed payload
IsTransportFailure(up) ==
    up.fetch = "timeout" \/ up.code # 200 \/ up.body = "malformed"

\* the upstream answered, and has no value for the symbol
IsNotFound(up) ==
    up.fetch = "response" /\ up.code = 200 /\ up.body = "none"

\* what the operations do instead: Naver answers every failure with
\* NO_DATA, Yahoo answers every failure with the number 0, neither throws
C18_FailuresSwallowed ==
    /\ (fn_pc \in NaverOperations /\ (IsTransportFailure(fn_args) \/ IsNotFound(fn_args)))
          => fn_result = NO_DATA
    /\ (fn_pc \in YahooOperations /\ (fn_args.fetch = "timeout" \/ fn_args.body # "quote"))
          => fn_result = Num(0)

\* C18: a price-source operation returns NO_DATA, without throwing, when
\* the upstream is reachable and has no value for the symbol, and throws
\* when the transport fails; it returns neither a number nor a status for a
\* transport failure.
C18_NoDataOrThrow ==
    fn_pc \in NaverOperations \cup YahooOperations
        => /\ IsNotFound(fn_args) => fn_result = NO_DATA
           /\ IsTransportFailure(fn_args) => fn_result = Throws

\* ------------------------------------------------------------------------
\* SpecEstimate: the steps that make up a historical price when none was
\* measured (NaverProvider.js getEstimatedHistoricalKosdaqPrice,
\* TickerService.js processTicker, GoogleFinanceProvider.getHistoricalPrice).
\* What reaches the caller is the returned value and what reading its
\* isEstimated property gives; step names the return statement it came from.
\* ------------------------------------------------------------------------

EstimationSteps == {"kospi-ratio", "time-decay", "haircut", "random-adjustment"}

\* a number or a status string is returned bare: it has no isEstimated
\* property
Delivered(price, step) ==
    [price |-> price, isEstimated |-> Undefined, step |-> step]

\* isNaN of a returned price
IsNaNPrice(x) == x.t \notin {"number", "Infinity"}

\* x * n / m of a number x
Scaled(x, n, m) == Ratio(x.v * n, x.d * m)

\* the time-based factor, in hundredths
adjustmentFactor(daysDiff) ==
    IF daysDiff <= 7 THEN 98 ELSE IF daysDiff <= 30 THEN 95 ELSE 90

\* getEstimatedHistoricalKosdaqPrice after the chart lookup: chart is the
\* result of the closest-date matching, the other arguments are what the
\* lookups of the current KOSDAQ, the current and the historical KOSPI give
getEstimatedHistoricalKosdaqPrice(chart, currentPrice, currentKospi, historicalKospi, daysDiff) ==
    IF chart.matched THEN Delivered(Num(chart.price), "chart")
    ELSE IF currentPrice = NO_DATA \/ IsNaNPrice(currentPrice)
    THEN Delivered(NO_DATA, "none")
    ELSE IF currentKospi = Throws \/ historicalKospi = Throws
    THEN Delivered(NO_DATA, "none")
    ELSE IF ~IsNaNPrice(currentKospi) /\ ~IsNaNPrice(historicalKospi)
            /\ currentKospi.v > 0
    THEN \* currentPrice * (1 - (1 - historicalKospi / currentKospi) * 1.2)
         Delivered(Scaled(currentPrice, 6 * historicalKospi.v - currentKospi.v,
                          5 * currentKospi.v), "kospi-ratio")
    ELSE Delivered(Scaled(currentPrice, adjustmentFactor(daysDiff), 100), "time-decay")

\* the factors of processTicker for KOSDAQ on Naver, in hundredths
haircutOf ==
    [weekly |-> 99, monthly |-> 98, ytd |-> 96]

\* processTicker, lines 120-140, for one slot of the prices of KOSDAQ
kosdaqSlot(prices, slot) ==
    IF prices[slot] = Null \/ (prices[slot].t = "number" /\ prices[slot].v = 0)
       \/ IsNaNPrice(prices[slot])
    THEN Delivered(Scaled(prices.current, haircutOf[slot], 100), "haircut")
    ELSE Delivered(prices[slot], "measured")

\* GoogleFinanceProvider.getHistoricalPrice: result is the cell of the
\* dated formula, closePrice that of the fallback formula, currentPrice what
\* _getGoogleFinanceData gives, adjustment 0.95 + Math.random() * 0.1
googleGetHistoricalPrice(result, closePrice, currentPrice, adjustment) ==
    IF IsTypeNumber(result) /\ result.t # "NaN" THEN Delivered(result, "measured")
    ELSE IF IsTypeNumber(closePrice) /\ closePrice.t # "NaN"
    THEN Delivered(closePrice, "measured")
    ELSE IF currentPrice = Throws THEN Delivered(Throws, "none")
    ELSE Delivered(Scaled(currentPrice, adjustment, 100), "random-adjustment")

Adjustments == {95, 100, 105}
EstimateAges == {5, 20, 45}
Measured == {Num(n) : n \in 1..MaxQuote}

EstimateCalls ==
    [call : {"getEstimatedHistoricalKosdaqPrice"},
     chart : {MatchResult(TRUE, 1, 0, 7), MatchResult(FALSE, 0, 0, 7)},
     currentPrice : Measured \cup {NO_DATA, NaNVal},
     currentKospi : Measured \cup {Num(0), NaNVal, Throws},
     historicalKospi : Measured \cup {NaNVal, Throws},
     daysDiff : EstimateAges]

HaircutCalls ==
    [call : {"processTicker"},
     prices : [{"current"} -> Measured]
              \X [{"weekly", "monthly", "ytd"} -> Measured \cup {Null, NO_DATA}]]

GoogleCalls ==
    [call : {"GoogleFinanceProvider.getHistoricalPrice"},
     result : Measured \cup {EmptyStr},
     closePrice : Measured \cup {EmptyStr},
     currentPrice : Measured \cup {Throws}]

EstimateInit ==
    /\ fn_args \in EstimateCalls \cup HaircutCalls \cup GoogleCalls
    /\ fn_result = Delivered(Undefined, "none")
    /\ fn_pc = "ready"
    /\ ReturnIdle /\ DateIdle /\ PricesIdle /\ DashboardIdle /\ LockIdle /\ MarketIdle

GetEstimatedHistoricalKosdaqPrice ==
    /\ fn_pc = "ready"
    /\ fn_args.call = "getEstimatedHistoricalKosdaqPrice"
    /\ fn_result' = getEstimatedHistoricalKosdaqPrice(
                        fn_args.chart, fn_args.currentPrice, fn_args.currentKospi,
                        fn_args.historicalKospi, fn_args.daysDiff)
    /\ fn_pc' = "returned"
    /\ UNCHANGED fn_args
    /\ UNCHANGED fnOthers

ProcessTickerKosdaq ==
    /\ fn_pc = "ready"
    /\ fn_args.call = "processTicker"
    /\ \E slot \in {"weekly", "monthly", "ytd"} :
          fn_result' = kosdaqSlot(fn_args.prices[1] @@ fn_args.prices[2], slot)
    /\ fn_pc' = "returned"
    /\ UNCHANGED fn_args
    /\ UNCHANGED fnOthers

GoogleGetHistoricalPrice ==
    /\ fn_pc = "ready"
    /\ fn_args.call = "GoogleFinanceProvider.getHistoricalPrice"
    /\ \E adjustment \in Adjustments :
          fn_result' = googleGetHistoricalPrice(fn_args.result, fn_args.closePrice,
                                                fn_args.currentPrice, adjustment)
    /\ fn_pc' = "returned"
    /\ UNCHANGED fn_args
    /\ UNCHANGED fnOthers

EstimateNext ==
    \/ GetEstimatedHistoricalKosdaqPrice
    \/ ProcessTickerKosdaq
    \/ GoogleGetHistoricalPrice

SpecEstimate == EstimateInit /\ [][EstimateNext]_vars

\* an estimated price reaches the caller as a bare number
C19_EstimateIsBareNumber ==
    (fn_pc = "returned" /\ fn_result.step \in EstimationSteps)
        => (fn_result.price.t = "number" /\ fn_result.isEstimated = Undefined)

\* C19: every price produced by an estimation step (cross-index ratio,
\* time-decay haircut, or any other value made from the current price)
\* reaches the caller flagged isEstimated = true.
C19_EstimatesFlagged ==
    (fn_pc = "returned" /\ fn_result.step \in EstimationSteps)
        => fn_result.isEstimated = Bool(TRUE)

\* ------------------------------------------------------------------------
\* SpecTickers: the ticker sheet is read into the list of a dashboard run
\* (Code.js getTickerData, TickerService.js getTickerData, tickers.js
\* getTickerList).  A row is its first three cells, each a string; the
\* header row is left out.
\* ------------------------------------------------------------------------

MaxRows == 2

validSources == {google, yahoo, naver}

TickerOf(name, ticker, source) == [name |-> name, ticker |-> ticker, source |-> source]

\* the loop of Code.js getTickerData over the rows from row k on: a row
\* with three non-empty cells is taken, its cells trimmed and its source
\* lower-cased
RECURSIVE LoadRowsCode(_, _)
LoadRowsCode(data, k) ==
    IF k > Len(data) THEN <<>>
    ELSE LET row == data[k]
         IN  IF Truthy(row[1]) /\ Truthy(row[2]) /\ Truthy(row[3])
             THEN <<TickerOf(JSString(trim(row[1].chars)), JSString(trim(row[2].chars)),
                             JSString(toLowerCase(trim(row[3].chars))))>>
                  \o LoadRowsCode(data, k + 1)
             ELSE LoadRowsCode(data, k + 1)

getTickerDataCode(data) == LoadRowsCode(data, 1)

\* the loop of TickerService.js getTickerData: empty rows, rows with an
\* empty cell and rows whose lower-cased source is not a valid source are
\* skipped
RECURSIVE LoadRowsService(_, _)
LoadRowsService(tickerData, k) ==
    IF k > Len(tickerData) THEN <<>>
    ELSE LET row == tickerData[k]
         IN  IF \A c \in 1..3 : row[c] = JSString(<<>>)
             THEN LoadRowsService(tickerData, k + 1)
             ELSE IF ~Truthy(row[1]) \/ ~Truthy(row[2]) \/ ~Truthy(row[3])
             THEN LoadRowsService(tickerData, k + 1)
             ELSE IF toLowerCase(row[3].chars) \notin validSources
             THEN LoadRowsService(tickerData, k + 1)
             ELSE <<TickerOf(row[1], row[2], JSString(toLowerCase(row[3].chars)))>>
                  \o LoadRowsService(tickerData, k + 1)

getTickerDataService(tickerData) == LoadRowsService(tickerData, 1)

\* tickers.js has the same loop
getTickerList(tickerData) == LoadRowsService(tickerData, 1)

SheetNames == {JSString(<<>>), JSString(<<"S", "K">>)}
SheetTickers == {JSString(<<>>), JSString(Samsung)}
SheetSources == {x \in RouteSources : IsJSString(x)}

SheetRows == {<<n, t, x>> : n \in SheetNames, t \in SheetTickers, x \in SheetSources}

Sheets == UNION {[1..n -> SheetRows] : n \in 0..MaxRows}

TickersInit ==
    /\ fn_args \in Sheets
    /\ fn_result = <<>>
    /\ fn_pc = "ready"
    /\ ReturnIdle /\ DateIdle /\ PricesIdle /\ DashboardIdle /\ LockIdle /\ MarketIdle

GetTickerDataCode ==
    /\ fn_pc = "ready"
    /\ fn_result' = getTickerDataCode(fn_args)
    /\ fn_pc' = "getTickerDataCode"
    /\ UNCHANGED fn_args
    /\ UNCHANGED fnOthers

GetTickerDataService ==
    /\ fn_pc = "ready"
    /\ fn_result' = getTickerDataService(fn_args)
    /\ fn_pc' = "getTickerDataService"
    /\ UNCHANGED fn_args
    /\ UNCHANGED fnOthers

GetTickerList ==
    /\ fn_pc = "ready"
    /\ fn_result' = getTickerList(fn_args)
    /\ fn_pc' = "getTickerList"
    /\ UNCHANGED fn_args
    /\ UNCHANGED fnOthers

TickersNext ==
    \/ GetTickerDataCode
    \/ GetTickerDataService
    \/ GetTickerList

SpecTickers == TickersInit /\ [][TickersNext]_vars

\* every ticker of the list has one of the three known sources
OnlyKnownSources(tickers) ==
    \A i \in 1..Len(tickers) : toLowerCase(tickers[i].source.chars) \in validSources

\* the loaders of TickerService.js and tickers.js skip every row of another
\* source
C20_ServiceOnlyKnown ==
    fn_pc \in {"getTickerDataService", "getTickerList"} => OnlyKnownSources(fn_result)

\* C20: the ticker list handed to a dashboard run holds only rows whose
\* source, compared without regard to case, is one of the three known
\* sources; a row of any other source is skipped.
C20_OnlyKnownSources ==
    fn_pc \in {"getTickerDataCode", "getTickerDataService", "getTickerList"}
        => OnlyKnownSources(fn_result)

\* ------------------------------------------------------------------------
\* SpecChain: the historical lookup of an index on Naver, one step of the
\* fallback chain at a time (NaverProvider.js getHistoricalPrice,
\* getKosdaqHistoricalPriceViaMobileAPI, getIndexHistoricalPriceViaAPI,
\* getEstimatedHistoricalKosdaqPrice).  fn_args holds what each request of
\* the chain will meet, fn_result the value returned so far and the steps
\* issued, fn_pc the step that is next.
\* ------------------------------------------------------------------------

ChainOrder == <<"mobile-api", "chart-api", "cross-index", "time-decay">>

\* what a JSON request can meet: the fetch throws, the status is not 200,
\* the body is not JSON, the JSON has not the expected shape, no entry is
\* within tolerance, or an entry is
JSONOutcomes == {"exception", "non200", "malformed", "shape", "noMatch", "match"}

ChainResult(value, issued) == [value |-> value, issued |-> issued]

ChainInit ==
    /\ fn_args \in [symbol : {"KOSDAQ", "KOSPI"},
                     mobile : JSONOutcomes, chart : JSONOutcomes,
                     matched : {Num(MaxQuote)},
                     currentPrice : Measured \cup {NO_DATA},
                     currentKospi : {Num(MaxQuote), NaNVal, Throws},
                     historicalKospi : {Num(1), NaNVal, Throws},
                     daysDiff : EstimateAges]
    /\ fn_result = ChainResult(Undefined, <<>>)
    /\ fn_pc = "mobile-api"
    /\ ReturnIdle /\ DateIdle /\ PricesIdle /\ DashboardIdle /\ LockIdle /\ MarketIdle

\* one step is over: value is returned, or the step next is taken up
ChainStep(step, value, next) ==
    /\ fn_result' = ChainResult(value, Append(fn_result.issued, step))
    /\ fn_pc' = next
    /\ UNCHANGED fn_args
    /\ UNCHANGED fnOthers

\* getKosdaqHistoricalPriceViaMobileAPI: a fetch exception returns NO_DATA
\* (lines 395-400); every other failure goes on to the estimated price
KosdaqMobileAPIStep ==
    /\ fn_pc = "mobile-api"
    /\ fn_args.symbol = "KOSDAQ"
    /\ CASE fn_args.mobile = "match" -> ChainStep("mobile-api", fn_args.matched, "done")
         [] fn_args.mobile = "exception" -> ChainStep("mobile-api", NO_DATA, "done")
         [] OTHER -> ChainStep("mobile-api", Undefined, "chart-api")

\* getIndexHistoricalPriceViaAPI (KOSPI): only a response without a match
\* goes on to the estimated price, every other failure returns NO_DATA
IndexAPIStep ==
    /\ fn_pc = "mobile-api"
    /\ fn_args.symbol = "KOSPI"
    /\ CASE fn_args.mobile = "match" -> ChainStep("mobile-api", fn_args.matched, "done")
         [] fn_args.mobile = "noMatch" -> ChainStep("mobile-api", Undefined, "chart-api")
         [] OTHER -> ChainStep("mobile-api", NO_DATA, "done")

\* getEstimatedHistoricalKosdaqPrice, lines 736-790: every failure of the
\* chart request is passed over
ChartAPIStep ==
    /\ fn_pc = "chart-api"
    /\ IF fn_args.chart = "match"
       THEN ChainStep("chart-api", fn_args.matched, "done")
       ELSE ChainStep("chart-api", Undefined, "cross-index")

\* what the rest of getEstimatedHistoricalKosdaqPrice gives without a chart
\* match
EstimateOf(args) ==
    getEstimatedHistoricalKosdaqPrice(MatchResult(FALSE, 0, args.daysDiff, 7),
                                      args.currentPrice, args.currentKospi,
                                      args.historicalKospi, args.daysDiff)

\* lines 792-817: without the current KOSDAQ, or with an exception of the
\* KOSPI lookups, NO_DATA is returned
CrossIndexStep ==
    /\ fn_pc = "cross-index"
    /\ CASE EstimateOf(fn_args).step = "kospi-ratio" ->
                ChainStep("cross-index", EstimateOf(fn_args).price, "done")
         [] EstimateOf(fn_args).step = "time-decay" ->
                ChainStep("cross-index", Undefined, "time-decay")
         [] OTHER -> ChainStep("cross-index", NO_DATA, "done")

\* lines 819-835
TimeDecayStep ==
    /\ fn_pc = "time-decay"
    /\ ChainStep("time-decay", EstimateOf(fn_args).price, "done")

ChainNext ==
    \/ KosdaqMobileAPIStep
    \/ IndexAPIStep
    \/ ChartAPIStep
    \/ CrossIndexStep
    \/ TimeDecayStep

SpecChain == ChainInit /\ [][ChainNext]_vars

\* the steps are issued in the order of the chain, none left out
C21_OrderKept ==
    /\ Len(fn_result.issued) <= Len(ChainOrder)
    /\ fn_result.issued = SubSeq(ChainOrder, 1, Len(fn_result.issued))

\* C21: the steps of an index lookup on Naver are attempted in the order
\* mobile API, chart API, cross-index estimation, time decay; a step that
\* yields no price, for whatever reason, is followed by the next one, so
\* that NO_DATA is returned only after all four have been attempted.
C21_NoDataOnlyAfterAll ==
    /\ fn_result.issued = SubSeq(ChainOrder, 1, Len(fn_result.issued))
    /\ (fn_pc = "done" /\ fn_result.value = NO_DATA) => fn_result.issued = ChainOrder

\* ------------------------------------------------------------------------
\* SpecFallback: the requests of one price lookup, one at a time
\* (DataProviders.js GoogleFinanceProvider.getPrice, ProviderFactory.js
\* YahooFinanceProvider.getHighPrice).  fn_args holds what each request will
\* meet, fn_result the value returned and the requests issued so far with
\* their results, fn_pc the request that is next.
\* ------------------------------------------------------------------------

\* getPrice evaluates each formula twice, first inside the template literal
\* of Logger.log and then for the result it tests
GoogleEvaluations == <<"price-log", "price", "close-log", "close", "current-log", "current">>

\* the step a request belongs to
StepOf ==
    [e \in {"price-log", "price"} |-> "price-at-date"]
    @@ [e \in {"close-log", "close"} |-> "close-at-date"]
    @@ [e \in {"current-log", "current"} |-> "current-price"]
    @@ [e \in {"quote"} |-> "quote"] @@ [e \in {"chart"} |-> "chart"]

\* what executeFormula gives: the cell value, or NaN for an error value
FormulaResults == {NaNVal, Num(0)} \cup Measured

\* what a Yahoo request meets: the fetch or JSON.parse throws, the answer
\* lacks the value, or has it
YahooOutcomes == {Throws, Num(0)} \cup Measured

\* !isNaN(result) && result > 0
IsValidPrice(x) == x.t = "number" /\ x.v > 0

FallbackResult(value, issued) == [value |-> value, issued |-> issued]

FallbackInit ==
    /\ \/ fn_args \in [call : {"google"}, isFutureDate : BOOLEAN,
                        results : [DOMAIN GoogleEvaluations -> FormulaResults]]
       \/ fn_args \in [call : {"yahoo"}, quote : YahooOutcomes, chart : YahooOutcomes]
    /\ fn_result = FallbackResult(Undefined, <<>>)
    /\ fn_pc = "start"
    /\ ReturnIdle /\ DateIdle /\ PricesIdle /\ DashboardIdle /\ LockIdle /\ MarketIdle

\* a request is issued and answered; value is returned, or next is taken up
Request(name, result, value, next) ==
    /\ fn_result' = FallbackResult(value, Append(fn_result.issued,
                                                  [request |-> name, result |-> result]))
    /\ fn_pc' = next
    /\ UNCHANGED fn_args
    /\ UNCHANGED fnOthers

\* lines 129-144: for a date in the future the dated formulas are left out
GoogleStart ==
    /\ fn_pc = "start"
    /\ fn_args.call = "google"
    /\ fn_pc' = IF fn_args.isFutureDate THEN "current-log" ELSE "price-log"
    /\ UNCHANGED <<fn_args, fn_result>>
    /\ UNCHANGED fnOthers

\* lines 147, 157, 168: the evaluation for the log line, its result unused
GoogleLogEvaluation ==
    \E k \in {1, 3, 5} :
        /\ fn_pc = GoogleEvaluations[k]
        /\ Request(GoogleEvaluations[k], fn_args.results[k], Undefined,
                   GoogleEvaluations[k + 1])

\* lines 148-153 and 158-163: a valid result is returned
GoogleDatedEvaluation ==
    \E k \in {2, 4} :
        /\ fn_pc = GoogleEvaluations[k]
        /\ IF IsValidPrice(fn_args.results[k])
           THEN Request(GoogleEvaluations[k], fn_args.results[k], fn_args.results[k], "done")
           ELSE Request(GoogleEvaluations[k], fn_args.results[k], Undefined,
                        GoogleEvaluations[k + 1])

\* lines 169-176: a valid result is returned, anything else throws
GoogleCurrentEvaluation ==
    /\ fn_pc = "current"
    /\ IF IsValidPrice(fn_args.results[6])
       THEN Request("current", fn_args.results[6], fn_args.results[6], "done")
       ELSE Request("current", fn_args.results[6], Throws, "done")

\* ProviderFactory.js:313-329: a truthy fiftyTwoWeekHigh is returned; an
\* exception is caught at 371 and 0 is returned
YahooQuoteRequest ==
    /\ fn_pc = "start"
    /\ fn_args.call = "yahoo"
    /\ CASE IsValidPrice(fn_args.quote) -> Request("quote", fn_args.quote, fn_args.quote, "done")
         [] fn_args.quote = Throws -> Request("quote", Throws, Num(0), "done")
         [] OTHER -> Request("quote", fn_args.quote, Undefined, "chart")

\* ProviderFactory.js:331-375
YahooChartRequest ==
    /\ fn_pc = "chart"
    /\ IF IsValidPrice(fn_args.chart)
       THEN Request("chart", fn_args.chart, fn_args.chart, "done")
       ELSE Request("chart", fn_args.chart, Num(0), "done")

FallbackNext ==
    \/ GoogleStart
    \/ GoogleLogEvaluation
    \/ GoogleDatedEvaluation
    \/ GoogleCurrentEvaluation
    \/ YahooQuoteRequest
    \/ YahooChartRequest

SpecFallback == FallbackInit /\ [][FallbackNext]_vars

\* the order of the steps of each chain
StepOrder ==
    [google |-> <<"price-at-date", "close-at-date", "current-price">>,
     yahoo |-> <<"quote", "chart">>]

StepIndex(call, step) == CHOOSE n \in DOMAIN StepOrder[call] : StepOrder[call][n] = step

IssuedStep(i) == StepOf[fn_result.issued[i].request]

\* request i of the run has a step before it, and no earlier request of
\* that step was issued and failed
IssuedUnasked(i) ==
    /\ StepIndex(fn_args.call, IssuedStep(i)) > 1
    /\ ~\E j \in 1..(i - 1) :
          /\ StepIndex(fn_args.call, IssuedStep(j))
                = StepIndex(fn_args.call, IssuedStep(i)) - 1
          /\ ~IsValidPrice(fn_result.issued[j].result)

\* request i of the run comes after a request of an earlier step whose
\* result was tested and accepted
IssuedAfterAccepted(i) ==
    \E j \in 1..(i - 1) :
        /\ StepIndex(fn_args.call, IssuedStep(j)) < StepIndex(fn_args.call, IssuedStep(i))
        /\ fn_result.issued[j].request \notin {"price-log", "close-log", "current-log"}
        /\ IsValidPrice(fn_result.issued[j].result)

\* the valid results among the requests issued
ValidIssued == {i \in 1..Len(fn_result.issued) : IsValidPrice(fn_result.issued[i].result)}

\* no request follows a result that was tested and accepted, and Yahoo's
\* chart request is issued only after the quote request failed
C22_NothingAfterAccepted ==
    /\ \A i \in 1..Len(fn_result.issued) : ~IssuedAfterAccepted(i)
    /\ fn_args.call = "yahoo" => \A i \in 1..Len(fn_result.issued) : ~IssuedUnasked(i)

\* C22: the request of step N is issued only if step N-1 was issued and
\* failed, no later step is requested once an earlier one has given an
\* accepted value, and the first numeric, positive result is the one
\* returned.
C22_SequentialFallback ==
    /\ \A i \in 1..Len(fn_result.issued) : ~IssuedUnasked(i) /\ ~IssuedAfterAccepted(i)
    /\ (fn_pc = "done" /\ fn_args.call = "google" /\ ValidIssued # {})
          => \E i \in ValidIssued :
                /\ \A j \in ValidIssued : i <= j
                /\ fn_result.value = fn_result.issued[i].result

\* ---- claims about the session returned for an instant -----------------------

\* the instant falls on a trading day of the region and inside
\* [openTime, closeTime) of the market's local time
MidSession(region, instant, localOffset) ==
    LET local == MarketLocal(region, instant, localOffset)
    IN  /\ MarketGetDay(local) \in markets[region].tradingDays
        /\ MarketHoursOf(local) >= markets[region].openTime
        /\ MarketHoursOf(local) < markets[region].closeTime

\* date is on the latest trading day before the day of the instant
IsSessionBefore(region, date, local) ==
    /\ MarketDayOf(date) < MarketDayOf(local)
    /\ MarketGetDay(date) \in markets[region].tradingDays
    /\ \A d \in (MarketDayOf(date) + 1) .. (MarketDayOf(local) - 1) :
          (d + WeekdayOfNewYear(BaseYear)) % 7 \notin markets[region].tradingDays

\* a call with a region of the table has returned
SessionReturned ==
    /\ mk_pc = "getMostRecentTradingDay"
    /\ mk_region \in Regions

\* when the call is made at the instant it is given, a mid-session instant
\* is answered with the session before its day
C23_MidSessionAtCallTime ==
    ( /\ SessionReturned
      /\ mk_now = mk_referenceDate
      /\ MidSession(mk_region, mk_referenceDate, mk_localOffset) )
    => IsSessionBefore(mk_region, mk_result.date,
                       MarketLocal(mk_region, mk_referenceDate, mk_localOffset))

\* C23: for an instant on a trading day and inside [openTime, closeTime) of
\* the market's local time, getMostRecentTradingDay returns the trading
\* session before that day, not that day itself.
C23_MidSessionGivesPrevious ==
    ( /\ SessionReturned
      /\ MidSession(mk_region, mk_referenceDate, mk_localOffset) )
    => IsSessionBefore(mk_region, mk_result.date,
                       MarketLocal(mk_region, mk_referenceDate, mk_localOffset))

\* C30: getMostRecentTradingDay(region, instant) depends only on its
\* arguments: the date returned is the one that a call at any other
\* wall-clock time would return for the same region and instant.
C30_IndependentOfCallTime ==
    SessionReturned
    => \A otherNow \in MarketNows(mk_referenceDate) :
          getMostRecentTradingDay(mk_region, mk_referenceDate, otherNow,
                                  mk_localOffset).date = mk_result.date

\* for an instant that is not on a trading day the date returned is the
\* same at every call time
C30_ClosedDayIndependent ==
    ( /\ SessionReturned
      /\ MarketGetDay(MarketLocal(mk_region, mk_referenceDate, mk_localOffset))
            \notin markets[mk_region].tradingDays )
    => \A otherNow \in MarketNows(mk_referenceDate) :
          getMostRecentTradingDay(mk_region, mk_referenceDate, otherNow,
                                  mk_localOffset).date = mk_result.date

\* ---- claims about the month-ago lookup date ----------------------------------

\* one calendar month before the reference date, snapped to a trading day:
\* as setMonth counts it, or with the day kept inside the shorter month
CalendarMonthAgoDates(referenceDate, currentDate) ==
    { getDateMonthsAgo(referenceDate, currentDate, 1).date,
      getLastTradingDate(NaiveMonthAgoDay(referenceDate) * TicksPerDay
                           + TimeOfDay(referenceDate)).date }

\* the methods that give the month-ago lookup date: getMonthAgoDate() in
\* getPrices of Code.js, getDateMonthsAgo(1) in getPrices of PriceService.js
MonthAgoLookups == {"getMonthAgoDate", "getDateMonthsAgo"}

\* C24: the month-ago lookup date is one calendar month before the
\* reference date, snapped to a trading day, never a fixed 30 days before it.
C24_CalendarMonth ==
    dc_pc \in MonthAgoLookups
    => dc_result \in CalendarMonthAgoDates(dc_referenceDate, dc_currentDate)

\* ---- claims about the exits of updatePerformanceDashboard -------------------

\* invocation i takes a step
Steps(i) == lk_pc'[i] # lk_pc[i]

\* an invocation other than i holds the script lock and is in the update
\* itself, its flag and start time written
UpdateRunningBeside(i) ==
    \E j \in Invocations \ {i} : lk_pc[j] = "body" /\ lk_lockAcquired[j]

\* C25: an invocation of updatePerformanceDashboard of Code.js that has not
\* acquired the script lock leaves the in-progress flag and the start time
\* written by the running update unchanged.
C25_LoserLeavesFlag ==
    [][ \A i \in Invocations :
          ( /\ lk_variant = "code"
            /\ Steps(i)
            /\ ~lk_lockAcquired[i] /\ ~lk_lockAcquired'[i]
            /\ UpdateRunningBeside(i) )
          => (lk_inProgress' = lk_inProgress /\ lk_time' = lk_time) ]_vars

\* the invocation that found the flag set and fresh returns without a write
C25_AlertedLeavesFlag ==
    [][ \A i \in Invocations :
          ( /\ lk_variant = "code"
            /\ Steps(i)
            /\ lk_pc[i] \in {"start", "readStartTime"}
            /\ lk_pc'[i] # "staleStatus" )
          => (lk_inProgress' = lk_inProgress /\ lk_time' = lk_time) ]_vars

\* ---- claims about the freshness of a held lock -------------------------------

\* the stale timeout of the variant, in minutes
StaleTimeout == IF lk_variant = "code" THEN STALE_MINUTES ELSE LOCK_TIMEOUT_MS

\* an invocation other than i has set the in-progress flag and has not yet
\* left the update, and no update began as long ago as the stale timeout
FreshlyHeldBeside(i) ==
    /\ \E j \in Invocations \ {i} : lk_pc[j] \in {"setStartTime", "setTime", "body"}
    /\ lk_now < StaleTimeout

\* invocation i, inside isUpdateInProgress, finds the lock stale
JudgesStale(i) ==
    /\ lk_pc[i] \in {"readStartTime", "checkTime", "acquireTime"}
    /\ lk_pc'[i] \in {"staleStatus", "checkStale", "acquireStale"}

\* invocation i, inside isUpdateInProgress, deletes the in-progress flag
ClearsStale(i) ==
    /\ lk_pc[i] \in {"staleStatus", "checkStale", "acquireStale"}
    /\ Steps(i)
    /\ lk_inProgress /\ ~lk_inProgress'

\* invocation i reads the flag and finds none
ReportsNone(i) ==
    /\ lk_pc[i] \in {"start", "acquire"}
    /\ Steps(i)
    /\ ~lk_inProgress

\* C26: while an update has set the in-progress flag, and for less than the
\* stale timeout, no concurrent isUpdateInProgress judges the lock stale,
\* clears it or reports that no update is in progress.
C26_FreshLockRespected ==
    [][ \A i \in Invocations :
          FreshlyHeldBeside(i)
          => (~JudgesStale(i) /\ ~ClearsStale(i) /\ ~ReportsNone(i)) ]_vars

\* ---- claims about the clean-up of updatePerformanceDashboard ----------------

\* invocation i returns, having set the in-progress flag
ReturnsAfterSetting(i) ==
    /\ lk_pc[i] # "returned"
    /\ lk_pc'[i] = "returned"
    /\ lk_lockAcquired[i]

C27_WitnessService ==
    \E i \in Invocations :
        /\ lk_variant = "service"
        /\ lk_pc[i] = "returned"
        /\ lk_lockAcquired[i]
        /\ ~lk_inProgress

\* ---- claims about the diagnostic mode around getPrices ------------------------

\* getPrices of services/PriceService.js is called and ends
GetPricesServiceEnds == pr_pc = "ready" /\ pr_pc' = "service"

\* when getPrices returns prices, the diagnostic mode is what it was
C28_KeptOnReturn ==
    [][ (GetPricesServiceEnds /\ ~pr_result'.threw)
          => pr_diagnosticMode' = pr_diagnosticMode ]_vars

\* C28: getPrices leaves the persisted diagnostic mode equal to the value
\* it had before the call, both when it returns prices and when it throws.
C28_DiagnosticModeKept ==
    [][ GetPricesServiceEnds => pr_diagnosticMode' = pr_diagnosticMode ]_vars

\* ------------------------------------------------------------------------
\* SpecSlot: one return slot of a Yahoo ticker, from the two lookups to the
\* return (ProviderFactory.js getCurrentPrice, getHistoricalPrice; Code.js
\* and services/PriceService.js calculateReturn).  fn_args holds what the
\* upstream does for the current and for the past price.
\* ------------------------------------------------------------------------

SlotInit ==
    /\ fn_args \in [current : Upstreams, past : Upstreams]
    /\ fn_result = Undefined
    /\ fn_pc = "ready"
    /\ ReturnIdle /\ DateIdle /\ PricesIdle /\ DashboardIdle /\ LockIdle /\ MarketIdle

\* Code.js:1805-1815 and calculateReturns: the two prices are looked up and
\* handed to calculateReturn
ReturnSlotCode ==
    /\ fn_pc = "ready"
    /\ fn_result' = calculateReturn(yahooGetCurrentPrice(fn_args.current),
                                    yahooGetHistoricalPrice(fn_args.past))
    /\ fn_pc' = "code"
    /\ UNCHANGED fn_args
    /\ UNCHANGED fnOthers

\* services/PriceService.js:33-67 and calculateReturns: the current price
\* must be a number, which the 0 of a failed lookup is
ReturnSlotService ==
    /\ fn_pc = "ready"
    /\ fn_result' =
          LET current == yahooGetCurrentPrice(fn_args.current)
          IN  IF ~IsTypeNumber(current) \/ IsNaN(current) THEN Throws
              ELSE calculateReturnService(current, yahooGetHistoricalPrice(fn_args.past))
    /\ fn_pc' = "service"
    /\ UNCHANGED fn_args
    /\ UNCHANGED fnOthers

SlotNext ==
    \/ ReturnSlotCode
    \/ ReturnSlotService

SpecSlot == SlotInit /\ [][SlotNext]_vars

\* the lookup obtained a value: the upstream answered with a quote
Yielded(up) == up.fetch = "response" /\ up.body = "quote"

\* the slot's return is a percentage: the formatted string of Code.js, the
\* number of services/PriceService.js
IsPercentage(r) ==
    IF fn_pc = "code" THEN r.t \in {"percent", "percentInfinity"} ELSE r.t = "number"

\* when the past price was not obtained the slot's return is a sentinel
C29_PastMissingIsSentinel ==
    (fn_pc \in {"code", "service"} /\ ~Yielded(fn_args.past))
    => fn_result = (IF fn_pc = "code" THEN CALC_ERROR ELSE Null)

\* C29: a return slot is a percentage only if both the current and the
\* past price of the slot were obtained from the source; when either lookup
\* yielded no value the slot's return is a sentinel.
C29_PercentageOnlyIfObtained ==
    (fn_pc \in {"code", "service"} /\ IsPercentage(fn_result))
    => (Yielded(fn_args.current) /\ Yielded(fn_args.past))

====
